---- MODULE Spec2Model ----
(***************************************************************************)
(* A model of scripts/merge-collections.js (the Postman collection merger) *)
(* together with the key function of the value sanitizer.                  *)
(*                                                                         *)
(* JavaScript values are represented as follows.                           *)
(*   - a string is a sequence of one-character strings, so that join,      *)
(*     trim, concatenation and upper-casing are computed character by      *)
(*     character;  tokens that the code only ever compares for equality    *)
(*     (event listen types, variable keys, identifiers, file paths) are    *)
(*     TLA+ strings;                                                       *)
(*   - an array is a sequence;                                             *)
(*   - an object is a record, an absent property is a field that is not    *)
(*     in the record's DOMAIN;                                             *)
(*   - where the code asks for the dynamic type of a value (typeof,        *)
(*     Array.isArray) the value is wrapped: [string |-> s] is a string,    *)
(*     [array |-> a] an array.                                             *)
(***************************************************************************)
EXTENDS Integers, Sequences, FiniteSets, TLC

\* ------------------------------------------------------------------ bounds

\* Longest event list of a request or of a collection.
MaxEvents == 2
\* Longest variable list of a collection.
MaxVars == 2
\* Most requests in a collection tree.
MaxLeaves == 2
\* Most segments of a URL path handed to the key functions.
MaxSegs == 2

\* ------------------------------------------------------- JavaScript basics

\* All sequences over S of length at most n.
SeqsUpTo(S, n) == UNION {[1..k -> S] : k \in 0..n}

\* obj.f = v  (the property is created when it is absent).
SetField(obj, f, v) == [x \in DOMAIN obj \cup {f} |-> IF x = f THEN v ELSE obj[x]]

\* map[k] = v on a plain object used as a dictionary.
MapSet(map, k, v) == [x \in DOMAIN map \cup {k} |-> IF x = k THEN v ELSE map[x]]

RECURSIVE Concat(_)
\* The concatenation of a sequence of strings.
Concat(ss) == IF ss = <<>> THEN <<>> ELSE Head(ss) \o Concat(Tail(ss))

RECURSIVE Join(_, _)
\* Array.prototype.join: the elements separated by sep.
Join(segs, sep) ==
    IF segs = <<>> THEN <<>>
    ELSE IF Len(segs) = 1 THEN segs[1]
    ELSE segs[1] \o sep \o Join(Tail(segs), sep)

\* The white space characters String.prototype.trim removes (those the model uses).
WhiteSpace == {" ", "\t", "\n"}

RECURSIVE TrimStart(_)
TrimStart(s) ==
    IF s # <<>> /\ Head(s) \in WhiteSpace THEN TrimStart(Tail(s)) ELSE s

RECURSIVE TrimEnd(_)
TrimEnd(s) ==
    IF s # <<>> /\ s[Len(s)] \in WhiteSpace THEN TrimEnd(SubSeq(s, 1, Len(s) - 1)) ELSE s

\* String.prototype.trim
Trim(s) == TrimEnd(TrimStart(s))

\* String.prototype.toUpperCase on one character (the letters the model uses).
UpperChar(c) ==
    CASE c = "g" -> "G"
      [] c = "e" -> "E"
      [] c = "t" -> "T"
      [] c = "p" -> "P"
      [] c = "o" -> "O"
      [] c = "s" -> "S"
      [] OTHER -> c

\* String.prototype.toUpperCase
ToUpperCase(s) == [i \in 1..Len(s) |-> UpperChar(s[i])]

\* ------------------------------------------------------------ the key

\* `${parentPath}/${item.name}`, or item.name under an empty parentPath.
ItemPath(parentPath, name) ==
    IF parentPath # <<>> THEN parentPath \o <<"/">> \o name ELSE name

\* A plausible slip: the key of a request is its display path, not method + URL.
generateItemKey_byPath(item, itemPath) == itemPath

\* A plausible slip: the key normalised the way the sanitizer's is.
generateItemKey_normalised(item, itemPath) ==
    IF "request" \in DOMAIN item
    THEN LET request == item.request
             method == IF "method" \in DOMAIN request THEN request.method ELSE <<"G", "E", "T">>
             segs == IF "url" \in DOMAIN request /\ "path" \in DOMAIN request.url
                        /\ "array" \in DOMAIN request.url.path
                     THEN request.url.path.array ELSE <<>>
             brace(seg) == IF seg # <<>> /\ Head(seg) = ":"
                           THEN <<"{">> \o Tail(seg) \o <<"}">> ELSE seg
         IN ToUpperCase(method) \o <<":", "/">>
               \o Join([i \in 1..Len(segs) |-> brace(segs[i])], <<"/">>)
    ELSE itemPath

\* A plausible slip: the path is written with a leading slash.
generateItemKey_leadingSlash(item, itemPath) ==
    IF "request" \in DOMAIN item
    THEN LET request == item.request
             method == IF "method" \in DOMAIN request THEN request.method ELSE <<"G", "E", "T">>
             segs == IF "url" \in DOMAIN request /\ "path" \in DOMAIN request.url
                        /\ "array" \in DOMAIN request.url.path
                     THEN request.url.path.array ELSE <<>>
         IN method \o <<":", "/">> \o Join(segs, <<"/">>)
    ELSE itemPath

\* generateItemKey(item, itemPath): method + ':' + URL path of a request, the
\* display path of a leaf that has no request.  A method that is absent is
\* not a string and becomes 'GET'.
generateItemKey(item, itemPath) ==
    IF "request" \in DOMAIN item
    THEN LET request == item.request
             method == IF "method" \in DOMAIN request THEN request.method ELSE <<"G", "E", "T">>
             url == request.url
             urlPath ==
                 IF "url" \in DOMAIN request /\ ~("string" \in DOMAIN url /\ url.string = <<>>)
                 THEN IF "string" \in DOMAIN url
                      THEN url.string
                      ELSE IF "path" \in DOMAIN url
                                 /\ ~("string" \in DOMAIN url.path /\ url.path.string = <<>>)
                           THEN IF "array" \in DOMAIN url.path
                                THEN Join(url.path.array, <<"/">>)
                                ELSE url.path.string
                           ELSE <<>>
                 ELSE <<>>
         IN method \o <<":">> \o urlPath
    ELSE itemPath

\* ':name' -> '{name}' on one path segment.
BraceSegment(seg) ==
    IF seg # <<>> /\ Head(seg) = ":" THEN <<"{">> \o Tail(seg) \o <<"}">> ELSE seg

\* buildEndpointKey(item) of scripts/value-sanitizer.js, for a request whose URL
\* path is an array: the method upper-cased, ':', and '/' + the segments joined
\* by '/', each ':name' segment written '{name}'.
buildEndpointKey(item) ==
    LET request == item.request
        method == IF "method" \in DOMAIN request THEN request.method ELSE <<"G", "E", "T">>
        segs == request.url.path.array
    IN ToUpperCase(method) \o <<":", "/">>
          \o Join([i \in 1..Len(segs) |-> BraceSegment(segs[i])], <<"/">>)

\* ------------------------------------------------------------ events

\* A plausible slip: any script with at least one line counts as non-empty.
hasNonEmptyScript_anyLine(event) ==
    /\ "script" \in DOMAIN event
    /\ "exec" \in DOMAIN event.script
    /\ Len(event.script.exec) > 0

\* hasNonEmptyScript(event)
hasNonEmptyScript(event) ==
    /\ "script" \in DOMAIN event
    /\ "exec" \in DOMAIN event.script
    /\ Len(event.script.exec) > 0
    /\ \E i \in 1..Len(event.script.exec) : Trim(event.script.exec[i]) # <<>>

\* The hasScript test mergeRequest makes on an event of the existing request.
hasScript(existingEvent) ==
    /\ "script" \in DOMAIN existingEvent
    /\ "exec" \in DOMAIN existingEvent.script
    /\ Len(existingEvent.script.exec) > 0
    /\ \E i \in 1..Len(existingEvent.script.exec) :
           Trim(existingEvent.script.exec[i]) # <<>>

\* Array.prototype.findIndex(e => e.listen === listen), 1-based; 0 for JavaScript's -1.
FindIndex(events, listen) ==
    IF \E i \in 1..Len(events) : events[i].listen = listen
    THEN CHOOSE i \in 1..Len(events) :
             /\ events[i].listen = listen
             /\ \A j \in 1..(i - 1) : events[j].listen # listen
    ELSE 0

\* A plausible slip: an existing script is only ever appended, an empty script of
\* the new request is left in its way.
PreserveEvent_appendOnly(events, existingEvent) ==
    IF hasScript(existingEvent)
    THEN IF FindIndex(events, existingEvent.listen) = 0
         THEN Append(events, existingEvent)
         ELSE events
    ELSE events

\* A plausible slip: the existing script replaces the new one whether empty or not.
PreserveEvent_overwrite(events, existingEvent) ==
    IF hasScript(existingEvent)
    THEN LET existingEventIndex == FindIndex(events, existingEvent.listen)
         IN IF existingEventIndex = 0
            THEN Append(events, existingEvent)
            ELSE [events EXCEPT ![existingEventIndex] = existingEvent]
    ELSE events

\* A plausible slip: an existing script is appended without a look at the
\* events the request has.
PreserveEvent_push(events, existingEvent) ==
    IF hasScript(existingEvent) THEN Append(events, existingEvent) ELSE events

\* The body of mergeRequest's loop for one event of the existing request.
PreserveEvent(events, existingEvent) ==
    IF hasScript(existingEvent)
    THEN LET existingEventIndex == FindIndex(events, existingEvent.listen)
         IN IF existingEventIndex = 0
            THEN Append(events, existingEvent)
            ELSE IF ~hasNonEmptyScript(events[existingEventIndex])
                 THEN [events EXCEPT ![existingEventIndex] = existingEvent]
                 ELSE events
    ELSE events

RECURSIVE PreserveEvents(_, _)
\* mergeRequest's loop over the existing request's events, in order.
PreserveEvents(events, existingEvents) ==
    IF existingEvents = <<>> THEN events
    ELSE PreserveEvents(PreserveEvent(events, Head(existingEvents)), Tail(existingEvents))

\* A plausible slip: the existing events are not looked at.
mergeRequest_dropScripts(newRequest, existingRequest) == newRequest

\* mergeRequest(newRequest, existingRequest).  _.cloneDeep gives a value equal to
\* newRequest that shares nothing with it.
mergeRequest(newRequest, existingRequest) ==
    LET merged == newRequest
    IN IF "event" \in DOMAIN existingRequest /\ Len(existingRequest.event) > 0
       THEN LET events == IF "event" \in DOMAIN merged THEN merged.event ELSE <<>>
            IN SetField(merged, "event", PreserveEvents(events, existingRequest.event))
       ELSE merged

\* ------------------------------------------------------------ the trees

\* Whether a node is a folder: `if (item.item)`.
IsFolder(item) == "item" \in DOMAIN item

\* A plausible slip: the first request met for a key is kept, later ones ignored.
IndexLeaf_firstWins(map, item, itemPath) ==
    LET key == generateItemKey(item, itemPath)
    IN IF key \in DOMAIN map THEN map ELSE MapSet(map, key, [item |-> item, path |-> itemPath])

\* buildItemsMap on one leaf: map[key] = { item, path: itemPath }.
IndexLeaf(map, item, itemPath) ==
    MapSet(map, generateItemKey(item, itemPath), [item |-> item, path |-> itemPath])

RECURSIVE buildItemsMap(_, _, _)
\* buildItemsMap(items, parentPath, map): the leaves of the tree, depth first,
\* each entered under its key.
buildItemsMap(items, parentPath, map) ==
    IF items = <<>> THEN map
    ELSE LET item == Head(items)
             itemPath == ItemPath(parentPath, item.name)
             map1 == IF IsFolder(item)
                     THEN buildItemsMap(item.item, itemPath, map)
                     ELSE IndexLeaf(map, item, itemPath)
         IN buildItemsMap(Tail(items), parentPath, map1)

\* A plausible slip: a request found in the index is replaced by the existing request.
MergeLeaf_takeExisting(newItem, existingItemsMap, itemPath) ==
    LET key == generateItemKey(newItem, itemPath)
    IN IF key \in DOMAIN existingItemsMap
       THEN existingItemsMap[key].item
       ELSE newItem

\* A plausible slip: a merged request also takes the existing request's name.
MergeLeaf_existingName(newItem, existingItemsMap, itemPath) ==
    LET key == generateItemKey(newItem, itemPath)
    IN IF key \in DOMAIN existingItemsMap
       THEN SetField(mergeRequest(newItem, existingItemsMap[key].item), "name",
                     existingItemsMap[key].item.name)
       ELSE newItem

\* A plausible slip: a request whose key the index lacks is merged with an
\* existing request of its name.
MergeLeaf_fallBackToName(newItem, existingItemsMap, itemPath) ==
    LET key == generateItemKey(newItem, itemPath)
        named == {k \in DOMAIN existingItemsMap : existingItemsMap[k].item.name = newItem.name}
    IN IF key \in DOMAIN existingItemsMap
       THEN mergeRequest(newItem, existingItemsMap[key].item)
       ELSE IF named # {}
       THEN mergeRequest(newItem, existingItemsMap[CHOOSE k \in named : TRUE].item)
       ELSE newItem

\* mergeItems on one leaf: the request merged with the index's entry for its
\* key, or the request itself when the index has none.
MergeLeaf(newItem, existingItemsMap, itemPath) ==
    LET key == generateItemKey(newItem, itemPath)
    IN IF key \in DOMAIN existingItemsMap
       THEN mergeRequest(newItem, existingItemsMap[key].item)
       ELSE newItem

RECURSIVE mergeItems(_, _, _)
\* mergeItems(newItems, existingItemsMap, parentPath)
mergeItems(newItems, existingItemsMap, parentPath) ==
    [i \in 1..Len(newItems) |->
        LET newItem == newItems[i]
            itemPath == ItemPath(parentPath, newItem.name)
        IN IF IsFolder(newItem)
           THEN SetField(newItem, "item", mergeItems(newItem.item, existingItemsMap, itemPath))
           ELSE MergeLeaf(newItem, existingItemsMap, itemPath)]

\* Set.prototype.add on a set kept in insertion order.
SetAdd(seq, x) == IF \E i \in 1..Len(seq) : seq[i] = x THEN seq ELSE Append(seq, x)

RECURSIVE collectEndpoints(_, _, _)
\* collectEndpoints(items, set, prefix) of calculateDiff: the display paths of
\* the leaves, in the order first met.
collectEndpoints(items, set, prefix) ==
    IF items = <<>> THEN set
    ELSE LET item == Head(items)
             set1 == IF IsFolder(item)
                     THEN collectEndpoints(item.item, set, prefix \o item.name \o <<"/">>)
                     ELSE SetAdd(set, prefix \o item.name)
         IN collectEndpoints(Tail(items), set1, prefix)

\* The elements of a sequence.
Range(seq) == {seq[i] : i \in 1..Len(seq)}

\* Array.prototype.filter(e => set.has(e)) / (e => !set.has(e)).
FilterIn(seq, set) == SelectSeq(seq, LAMBDA e : e \in set)
FilterNotIn(seq, set) == SelectSeq(seq, LAMBDA e : e \notin set)

\* A plausible slip: the two difference lists are taken the wrong way round.
calculateDiff_swapped(existingCollection, mergedCollection) ==
    LET existingEndpoints == collectEndpoints(existingCollection.item, <<>>, <<>>)
        mergedEndpoints == collectEndpoints(mergedCollection.item, <<>>, <<>>)
    IN [added |-> FilterNotIn(existingEndpoints, Range(mergedEndpoints)),
        removed |-> FilterNotIn(mergedEndpoints, Range(existingEndpoints)),
        preserved |-> FilterIn(mergedEndpoints, Range(existingEndpoints))]

\* calculateDiff(existingCollection, mergedCollection)
calculateDiff(existingCollection, mergedCollection) ==
    LET existingEndpoints == collectEndpoints(existingCollection.item, <<>>, <<>>)
        mergedEndpoints == collectEndpoints(mergedCollection.item, <<>>, <<>>)
    IN [added |-> FilterNotIn(mergedEndpoints, Range(existingEndpoints)),
        removed |-> FilterNotIn(existingEndpoints, Range(mergedEndpoints)),
        preserved |-> FilterIn(mergedEndpoints, Range(existingEndpoints))]

\* ------------------------------------------------- the collection's root

\* Array.prototype.find(e => e.listen === listen) finds something.
HasListen(events, listen) == \E i \in 1..Len(events) : events[i].listen = listen

\* Array.prototype.find(e => e.listen === listen), when it finds something.
FindListen(events, listen) == events[FindIndex(events, listen)]

\* A plausible slip: the existing script is pushed without looking for one of
\* the same type in the merged collection.
PreserveCollectionEvent_always(mergedCollection, existingCollection, listen, enabled) ==
    IF enabled /\ "event" \in DOMAIN existingCollection
          /\ HasListen(existingCollection.event, listen)
    THEN LET events == IF "event" \in DOMAIN mergedCollection
                       THEN mergedCollection.event ELSE <<>>
         IN SetField(mergedCollection, "event",
                     Append(events, FindListen(existingCollection.event, listen)))
    ELSE mergedCollection

\* The block `if (options.preserveX && existingCollection.event) { ... }` for one
\* listen type: the merged collection after it.
PreserveCollectionEvent(mergedCollection, existingCollection, listen, enabled) ==
    IF enabled /\ "event" \in DOMAIN existingCollection
          /\ HasListen(existingCollection.event, listen)
    THEN LET events == IF "event" \in DOMAIN mergedCollection
                       THEN mergedCollection.event ELSE <<>>
         IN IF ~HasListen(events, listen)
            THEN SetField(mergedCollection, "event",
                          Append(events, FindListen(existingCollection.event, listen)))
            ELSE SetField(mergedCollection, "event", events)
    ELSE mergedCollection

\* The keys of a variable list: new Set(list.map(v => v.key)).
VarKeys(variables) == {variables[i].key : i \in 1..Len(variables)}

\* A plausible slip: the existing variables are appended whether or not the new
\* collection defines their key.
PreserveCollectionVariables_all(mergedCollection, existingCollection, newCollection, enabled) ==
    IF enabled /\ "variable" \in DOMAIN existingCollection
    THEN LET variables == IF "variable" \in DOMAIN mergedCollection
                          THEN mergedCollection.variable ELSE <<>>
         IN SetField(mergedCollection, "variable", variables \o existingCollection.variable)
    ELSE mergedCollection

\* The block `if (options.preserveVariables && existingCollection.variable) { ... }`:
\* the merged collection after it.
PreserveCollectionVariables(mergedCollection, existingCollection, newCollection, enabled) ==
    IF enabled /\ "variable" \in DOMAIN existingCollection
    THEN LET newVarKeys == IF "variable" \in DOMAIN newCollection
                           THEN VarKeys(newCollection.variable) ELSE {}
             variables == IF "variable" \in DOMAIN mergedCollection
                          THEN mergedCollection.variable ELSE <<>>
         IN SetField(mergedCollection, "variable",
                     variables \o SelectSeq(existingCollection.variable,
                                            LAMBDA v : v.key \notin newVarKeys))
    ELSE mergedCollection

\* A plausible slip: the new collection's identifier is preferred.
MergedInfo_newFirst(newInfo, existingInfo) ==
    IF "_postman_id" \in DOMAIN newInfo
    THEN newInfo
    ELSE IF "_postman_id" \in DOMAIN existingInfo
         THEN SetField(newInfo, "_postman_id", existingInfo._postman_id)
         ELSE newInfo

\* info: { ...newCollection.info, _postman_id: existing._postman_id || new._postman_id }.
\* An identifier is falsy when it is absent or the empty string; JSON.stringify
\* drops a property whose value is undefined, which an absent field stands for.
MergedInfo(newInfo, existingInfo) ==
    IF "_postman_id" \in DOMAIN existingInfo /\ existingInfo._postman_id # ""
    THEN SetField(newInfo, "_postman_id", existingInfo._postman_id)
    ELSE newInfo

\* ------------------------------------------------------------ the state

VARIABLES
    options,             \* program.opts()
    files,               \* the file system: path -> file
    pc,                  \* where merge() is
    newCollection,       \* const newCollection (the candidate, as loaded)
    existingCollection,  \* const existingCollection (the previous collection)
    existingItemsMap,    \* const existingItemsMap
    mergedItems,         \* const mergedItems
    mergedCollection,    \* const mergedCollection
    diff,                \* const diff
    result,              \* what merge() returned
    error,               \* the error caught, "" when none
    exitCode,            \* the code process.exit was called with, 0 when it was not
    writes,              \* the paths writeJsonFile wrote, in order
    keyItem,             \* the request handed to the key functions
    keyPc,               \* where the key computation is
    mergerKey,           \* generateItemKey's answer
    sanitizerKey,        \* buildEndpointKey's answer
    convertOptions,      \* program.opts() of convert.js
    convertFiles,        \* the file system convert() runs on
    convertPc,           \* where convert() is
    openApiSpec,         \* let openApiSpec
    converted,           \* result.output[0].data as the converter delivered it
    convertCollection,   \* let collection
    sanitizerCalls,      \* the arguments of each call of sanitizeCollection
    convertReads,        \* the paths readJsonFile was called with, in order
    convertWrites,       \* the paths writeJsonFile wrote, in order
    convertResult,       \* what convert() returned
    convertError,        \* the error caught, "" when none
    convertExitCode,     \* the code process.exit was called with, 0 when it was not
    resolvePc,           \* where the call of resolveValue is
    resolveArgs,         \* its arguments
    resolved,            \* its answer
    sanPc,               \* where sanitizeCollection is
    sanArgs,             \* its arguments
    sanCollection,       \* the collection it works on
    sanLeaves,           \* the places of the scalar leaves it has to visit
    sanNext,             \* the leaf it visits next
    sanReturned,         \* what each of its runs returned, in order
    sanError,            \* the error it raised, "" when none
    sanRuns              \* how many times it has run on its own output

vars == <<options, files, pc, newCollection, existingCollection, existingItemsMap,
          mergedItems, mergedCollection, diff, result, error, exitCode, writes,
          keyItem, keyPc, mergerKey, sanitizerKey,
          convertOptions, convertFiles, convertPc, openApiSpec, converted,
          convertCollection,
          sanitizerCalls, convertReads, convertWrites, convertResult, convertError,
          convertExitCode,
          resolvePc, resolveArgs, resolved,
          sanPc, sanArgs, sanCollection, sanLeaves, sanNext, sanReturned, sanError, sanRuns>>

mergeVars == <<options, files, pc, newCollection, existingCollection, existingItemsMap,
               mergedItems, mergedCollection, diff, result, error, exitCode, writes>>

keyVars == <<keyItem, keyPc, mergerKey, sanitizerKey>>

convertVars == <<convertOptions, convertFiles, convertPc, openApiSpec, converted,
          convertCollection,
                 sanitizerCalls, convertReads, convertWrites, convertResult, convertError,
                 convertExitCode>>

resolveVars == <<resolvePc, resolveArgs, resolved>>

sanitizeVars == <<sanPc, sanArgs, sanCollection, sanLeaves, sanNext, sanReturned, sanError,
                  sanRuns>>

\* A binding that holds nothing yet.
Undefined == [undefined |-> TRUE]

\* A file that does not exist, one that is no JSON, one that is the JSON text of data.
MissingFile == [kind |-> "missing"]
TextFile == [kind |-> "text"]
JsonFile(data) == [kind |-> "json", data |-> data]

\* fs.existsSync(path)
ExistsSync(path) == files[path].kind # "missing"

\* readJsonFile(path): the value parsed, or the error thrown.
ReadJsonFile(path) ==
    CASE files[path].kind = "missing" -> [ok |-> FALSE, error |-> "File not found"]
      [] files[path].kind = "text" -> [ok |-> FALSE, error |-> "Failed to parse JSON file"]
      [] OTHER -> [ok |-> TRUE, data |-> files[path].data]

\* options.output ? path.resolve(options.output) : existingCollectionPath
OutputPath == IF "output" \in DOMAIN options THEN options.output ELSE options.existing

\* A plausible slip: the output always goes over the existing collection.
WriteTarget_existing == options.existing

\* The path the run writes to.
WriteTarget == OutputPath

\* A plausible slip: the output is written in a dry run too.
ShouldWrite_always == TRUE

\* if (!options.dryRun): the run writes its output.
ShouldWrite == ~options.dryRun

\* A plausible slip: the new collection with the merged items is written, the
\* identifier, scripts and variables of the merged collection left out.
OutputDocument_itemsOnly == SetField(newCollection, "item", mergedItems)

\* Line 139: the document the merging path writes.
OutputDocument == mergedCollection

\* A plausible slip: the error is logged and the run goes on as if it had succeeded.
CatchOutcome_swallow == [pc |-> "returned", exitCode |-> 0]

\* The catch block of merge(): log, then process.exit(1).
CatchOutcome == [pc |-> "exited", exitCode |-> 1]

\* ---------------------------------------------------------- the actions

\* throw new Error(message): control goes to the catch block.
Throw(message) ==
    /\ pc' = "catch"
    /\ error' = message

\* Lines 44-49: the new collection must exist.
CheckNew ==
    /\ pc = "start"
    /\ IF ~ExistsSync(options.new)
       THEN Throw("New collection file not found")
       ELSE pc' = "checkExisting" /\ error' = error
    /\ UNCHANGED <<options, files, newCollection, existingCollection, existingItemsMap,
                   mergedItems, mergedCollection, diff, result, exitCode, writes>>
    /\ UNCHANGED <<keyVars, convertVars, resolveVars, sanitizeVars>>

\* Lines 51-60: without an existing collection the new one is the result.
Bootstrap ==
    /\ pc = "checkExisting"
    /\ ~ExistsSync(options.existing)
    /\ LET read == ReadJsonFile(options.new)
       IN IF ~read.ok
          THEN /\ Throw(read.error)
               /\ UNCHANGED <<files, newCollection, result, writes>>
          ELSE /\ newCollection' = read.data
               /\ IF ShouldWrite
                  THEN /\ files' = [files EXCEPT ![WriteTarget] = JsonFile(read.data)]
                       /\ writes' = Append(writes, WriteTarget)
                  ELSE UNCHANGED <<files, writes>>
               /\ result' = read.data
               /\ pc' = "returned"
               /\ error' = error
    /\ UNCHANGED <<options, existingCollection, existingItemsMap, mergedItems,
                   mergedCollection, diff, exitCode>>
    /\ UNCHANGED <<keyVars, convertVars, resolveVars, sanitizeVars>>

\* Lines 62-66: both collections are read, and their names logged.
LoadCollections ==
    /\ pc = "checkExisting"
    /\ ExistsSync(options.existing)
    /\ LET readNew == ReadJsonFile(options.new)
           readExisting == ReadJsonFile(options.existing)
       IN IF ~readNew.ok
          THEN Throw(readNew.error) /\ UNCHANGED <<newCollection, existingCollection>>
          ELSE IF ~readExisting.ok
          THEN /\ Throw(readExisting.error)
               /\ newCollection' = readNew.data
               /\ UNCHANGED existingCollection
          ELSE /\ newCollection' = readNew.data
               /\ existingCollection' = readExisting.data
               /\ IF "info" \notin DOMAIN readNew.data \/ "info" \notin DOMAIN readExisting.data
                  THEN Throw("TypeError")
                  ELSE pc' = "index" /\ error' = error
    /\ UNCHANGED <<options, files, existingItemsMap, mergedItems, mergedCollection,
                   diff, result, exitCode, writes>>
    /\ UNCHANGED <<keyVars, convertVars, resolveVars, sanitizeVars>>

\* Line 69: the index of the existing collection's requests.
BuildIndex ==
    /\ pc = "index"
    /\ IF "item" \notin DOMAIN existingCollection
       THEN Throw("TypeError") /\ UNCHANGED existingItemsMap
       ELSE /\ existingItemsMap' = buildItemsMap(existingCollection.item, <<>>, <<>>)
            /\ pc' = "mergeItems"
            /\ error' = error
    /\ UNCHANGED <<options, files, newCollection, existingCollection, mergedItems,
                   mergedCollection, diff, result, exitCode, writes>>
    /\ UNCHANGED <<keyVars, convertVars, resolveVars, sanitizeVars>>

\* Line 76: the new collection's tree, each request merged with its match.
MergeItems ==
    /\ pc = "mergeItems"
    /\ IF "item" \notin DOMAIN newCollection
       THEN Throw("TypeError") /\ UNCHANGED mergedItems
       ELSE /\ mergedItems' = mergeItems(newCollection.item, existingItemsMap, <<>>)
            /\ pc' = "build"
            /\ error' = error
    /\ UNCHANGED <<options, files, newCollection, existingCollection, existingItemsMap,
                   mergedCollection, diff, result, exitCode, writes>>
    /\ UNCHANGED <<keyVars, convertVars, resolveVars, sanitizeVars>>

\* Lines 79-87: the merged collection is a shallow copy of the new one, with
\* the existing identifier and the merged items.
BuildMerged ==
    /\ pc = "build"
    /\ mergedCollection' =
           SetField(SetField(newCollection, "info",
                             MergedInfo(newCollection.info, existingCollection.info)),
                    "item", mergedItems)
    /\ pc' = "prerequest"
    /\ UNCHANGED <<options, files, newCollection, existingCollection, existingItemsMap,
                   mergedItems, diff, result, error, exitCode, writes>>
    /\ UNCHANGED <<keyVars, convertVars, resolveVars, sanitizeVars>>

\* The new collection after a push onto a list of the merged collection: the
\* spread of line 80 copies the reference, so a list the new collection has is
\* the very list the merged collection holds.
Shared(field, merged) ==
    IF field \in DOMAIN newCollection
    THEN [newCollection EXCEPT ![field] = merged[field]]
    ELSE newCollection

\* Lines 90-100: the collection-level pre-request script.
PreservePrerequest ==
    /\ pc = "prerequest"
    /\ LET merged == PreserveCollectionEvent(mergedCollection, existingCollection,
                                             "prerequest", options.preservePrerequest)
       IN /\ mergedCollection' = merged
          /\ newCollection' = Shared("event", merged)
    /\ pc' = "tests"
    /\ UNCHANGED <<options, files, existingCollection, existingItemsMap, mergedItems,
                   diff, result, error, exitCode, writes>>
    /\ UNCHANGED <<keyVars, convertVars, resolveVars, sanitizeVars>>

\* Lines 102-112: the collection-level test script.
PreserveTests ==
    /\ pc = "tests"
    /\ LET merged == PreserveCollectionEvent(mergedCollection, existingCollection,
                                             "test", options.preserveTests)
       IN /\ mergedCollection' = merged
          /\ newCollection' = Shared("event", merged)
    /\ pc' = "variables"
    /\ UNCHANGED <<options, files, existingCollection, existingItemsMap, mergedItems,
                   diff, result, error, exitCode, writes>>
    /\ UNCHANGED <<keyVars, convertVars, resolveVars, sanitizeVars>>

\* Lines 114-130: the collection variables.
PreserveVariables ==
    /\ pc = "variables"
    /\ LET merged == PreserveCollectionVariables(mergedCollection, existingCollection,
                                                 newCollection, options.preserveVariables)
       IN /\ mergedCollection' = merged
          /\ newCollection' = Shared("variable", merged)
    /\ pc' = "diff"
    /\ UNCHANGED <<options, files, existingCollection, existingItemsMap, mergedItems,
                   diff, result, error, exitCode, writes>>
    /\ UNCHANGED <<keyVars, convertVars, resolveVars, sanitizeVars>>

\* Lines 132-134: the diff is calculated and displayed.
CalculateDiff ==
    /\ pc = "diff"
    /\ diff' = calculateDiff(existingCollection, mergedCollection)
    /\ pc' = "write"
    /\ UNCHANGED <<options, files, newCollection, existingCollection, existingItemsMap,
                   mergedItems, mergedCollection, result, error, exitCode, writes>>
    /\ UNCHANGED <<keyVars, convertVars, resolveVars, sanitizeVars>>

\* Lines 136-145: the output is written, unless this is a dry run, and the
\* merged collection returned.
WriteOutput ==
    /\ pc = "write"
    /\ IF ShouldWrite
       THEN /\ files' = [files EXCEPT ![WriteTarget] = JsonFile(OutputDocument)]
            /\ writes' = Append(writes, WriteTarget)
       ELSE UNCHANGED <<files, writes>>
    /\ result' = mergedCollection
    /\ pc' = "returned"
    /\ UNCHANGED <<options, newCollection, existingCollection, existingItemsMap,
                   mergedItems, mergedCollection, diff, error, exitCode>>
    /\ UNCHANGED <<keyVars, convertVars, resolveVars, sanitizeVars>>

\* Lines 147-153: the catch block.
Catch ==
    /\ pc = "catch"
    /\ pc' = CatchOutcome.pc
    /\ exitCode' = CatchOutcome.exitCode
    /\ UNCHANGED <<options, files, newCollection, existingCollection, existingItemsMap,
                   mergedItems, mergedCollection, diff, result, error, writes>>
    /\ UNCHANGED <<keyVars, convertVars, resolveVars, sanitizeVars>>

\* generateItemKey is applied to the request.
MergerKey ==
    /\ keyPc = "merger"
    /\ mergerKey' = generateItemKey(keyItem, keyItem.name)
    /\ keyPc' = "sanitizer"
    /\ UNCHANGED <<keyItem, sanitizerKey>>
    /\ UNCHANGED <<mergeVars, convertVars, resolveVars, sanitizeVars>>

\* buildEndpointKey is applied to the request (the tests give it requests
\* whose URL path is an array).
SanitizerKey ==
    /\ keyPc = "sanitizer"
    /\ "request" \in DOMAIN keyItem
    /\ "url" \in DOMAIN keyItem.request
    /\ "path" \in DOMAIN keyItem.request.url
    /\ "array" \in DOMAIN keyItem.request.url.path
    /\ sanitizerKey' = buildEndpointKey(keyItem)
    /\ keyPc' = "done"
    /\ UNCHANGED <<keyItem, mergerKey>>
    /\ UNCHANGED <<mergeVars, convertVars, resolveVars, sanitizeVars>>

Next ==
    \/ CheckNew
    \/ Bootstrap
    \/ LoadCollections
    \/ BuildIndex
    \/ MergeItems
    \/ BuildMerged
    \/ PreservePrerequest
    \/ PreserveTests
    \/ PreserveVariables
    \/ CalculateDiff
    \/ WriteOutput
    \/ Catch

KeyNext ==
    \/ MergerKey
    \/ SanitizerKey

\* ------------------------------------------------------------ the inputs

\* An optional property: absent, or present with a value of S.
Optional(S) == {[has |-> FALSE]} \cup {[has |-> TRUE, val |-> v] : v \in S}
WithOptional(obj, f, opt) == IF opt.has THEN SetField(obj, f, opt.val) ELSE obj

sGET == <<"G", "E", "T">>
sGetLower == <<"g", "e", "t">>
sPostMixed == <<"P", "o", "s", "t">>
sPets == <<"p", "e", "t", "s">>
sId == <<":", "i", "d">>
sApi == <<"a", "p", "i">>
sUsers == <<"u", "s", "e", "r", "s">>
nameA == <<"A">>
nameB == <<"B">>
nameC == <<"C">>
nameF == <<"F">>
nameG == <<"G">>

\* The request of a generated leaf and of a leaf of the previous file; the two
\* differ in body, so that the origin of a merged request's definition shows.
NewRequest(method, segs) ==
    [method |-> method, url |-> [path |-> [array |-> segs]], body |-> "new body"]
ExistingRequest(method, segs) ==
    [method |-> method, url |-> [path |-> [array |-> segs]], body |-> "old body"]
NewLeaf(name, method, segs) ==
    [name |-> name, request |-> NewRequest(method, segs), response |-> <<"new example">>]
ExistingLeaf(name, method, segs) ==
    [name |-> name, request |-> ExistingRequest(method, segs), response |-> <<"old example">>]

Event(listen, exec) == [listen |-> listen, script |-> [exec |-> exec]]
\* Scripts: 'c' is the generator's, 'p' and 'q' are hand-written; the blank
\* ones have lines of white space only.
execC == << <<"c">> >>
execP == << <<" ", "p">> >>
execQ == << <<>>, <<"q", "\n">> >>
execBlank == << <<" ">>, <<>>, <<"\t", "\n">> >>

NewEvents ==
    {Event("prerequest", execC), Event("test", execC),
     Event("test", execBlank), Event("prerequest", <<>>)}
ExistingEvents ==
    {Event("prerequest", execP), Event("test", execP), Event("test", execQ),
     Event("test", execBlank), [listen |-> "test"]}

\* A folder is made where the path asks for one, unless the last node there is
\* that folder already.
RECURSIVE AddLeaf(_, _, _)
AddLeaf(items, folders, leaf) ==
    IF folders = <<>> THEN Append(items, leaf)
    ELSE IF items # <<>> /\ IsFolder(items[Len(items)])
              /\ items[Len(items)].name = Head(folders)
         THEN [items EXCEPT ![Len(items)] =
                  SetField(@, "item", AddLeaf(@.item, Tail(folders), leaf))]
         ELSE Append(items, [name |-> Head(folders),
                             item |-> AddLeaf(<<>>, Tail(folders), leaf)])

RECURSIVE Tree(_)
\* The tree of a sequence of (leaf, folders) entries.
Tree(entries) ==
    IF entries = <<>> THEN <<>>
    ELSE LET last == entries[Len(entries)]
         IN AddLeaf(Tree(SubSeq(entries, 1, Len(entries) - 1)), last.folders, last.leaf)

NewTreeLeaves ==
    {NewLeaf(nameA, sGET, <<sPets>>),
     SetField(NewLeaf(nameA, sGET, <<sPets, sId>>), "event", <<Event("test", execBlank)>>)}
ExistingTreeLeaves ==
    {SetField(ExistingLeaf(nameA, sGET, <<sPets>>), "event", <<Event("test", execP)>>),
     SetField(ExistingLeaf(nameB, sGET, <<sPets>>), "event", <<Event("test", execQ)>>),
     SetField(ExistingLeaf(nameB, sGET, <<sPets, sId>>), "event", <<Event("prerequest", execP)>>)}
NewTrees ==
    {Tree(es) : es \in SeqsUpTo([leaf : NewTreeLeaves,
                                 folders : {<<>>, <<nameF>>, <<nameF, nameG>>}], MaxLeaves)}
ExistingTrees ==
    {Tree(es) : es \in SeqsUpTo([leaf : ExistingTreeLeaves,
                                 folders : {<<>>, <<nameF>>}], MaxLeaves)}

NewCollectionOf(items) ==
    [info |-> [name |-> "generated", _postman_id |-> "id-new"], item |-> items]
ExistingCollectionOf(items) ==
    [info |-> [name |-> "curated", _postman_id |-> "id-existing"], item |-> items]

Variable(key, value) == [key |-> key, value |-> value]
NewVariables == {Variable("k1", "new"), Variable("k2", "new")}
ExistingVariables == {Variable("k1", "old"), Variable("k2", "old"), Variable("k3", "old")}

Paths == {"new.json", "existing.json", "out.json"}

DefaultOptions ==
    [new |-> "new.json", existing |-> "existing.json",
     preserveTests |-> TRUE, preservePrerequest |-> TRUE, preserveVariables |-> TRUE,
     dryRun |-> FALSE, verbose |-> FALSE]

\* The state in which merge() starts on the command line opts and the two files.
Starts(opts, newFile, existingFile) ==
    /\ options = opts
    /\ files = [p \in Paths |-> IF p = "new.json" THEN newFile
                                ELSE IF p = "existing.json" THEN existingFile
                                ELSE MissingFile]

\* One request against one request: every pair of event lists.
RequestScenarios ==
    \E ne \in Optional(SeqsUpTo(NewEvents, MaxEvents)),
       ee \in Optional(SeqsUpTo(ExistingEvents, MaxEvents)),
       el \in {ExistingLeaf(nameB, sGET, <<sPets>>), ExistingLeaf(nameA, sGET, <<sPets, sId>>)} :
        Starts(DefaultOptions,
               JsonFile(NewCollectionOf(
                   <<WithOptional(NewLeaf(nameA, sGET, <<sPets>>), "event", ne)>>)),
               JsonFile(ExistingCollectionOf(<<WithOptional(el, "event", ee)>>)))

\* Tree against tree.
TreeScenarios ==
    \E nt \in NewTrees, et \in ExistingTrees :
        Starts(DefaultOptions, JsonFile(NewCollectionOf(nt)),
               JsonFile(ExistingCollectionOf(et)))

\* The collection-level scripts, under every setting of the three toggles.
CollectionEventScenarios ==
    \E t \in BOOLEAN \X BOOLEAN \X BOOLEAN,
       ne \in Optional(SeqsUpTo({Event("prerequest", execC), Event("test", execC)}, MaxEvents)),
       ee \in Optional(SeqsUpTo({Event("prerequest", execP), Event("test", execP),
                                 Event("test", execQ)}, MaxEvents)) :
        Starts([DefaultOptions EXCEPT !.preserveTests = t[1], !.preservePrerequest = t[2],
                                      !.preserveVariables = t[3]],
               JsonFile(WithOptional(
                   SetField(NewCollectionOf(<<NewLeaf(nameA, sGET, <<sPets>>)>>),
                            "variable", <<Variable("k1", "new")>>), "event", ne)),
               JsonFile(WithOptional(
                   SetField(ExistingCollectionOf(<<ExistingLeaf(nameA, sGET, <<sPets>>)>>),
                            "variable", <<Variable("k1", "old"), Variable("k3", "old")>>),
                   "event", ee)))

\* The collection variables and the identifiers.
CollectionVariableScenarios ==
    \E t \in BOOLEAN,
       nid \in Optional({"id-new"}), eid \in Optional({"id-existing", ""}),
       nv \in Optional(SeqsUpTo(NewVariables, MaxVars)),
       ev \in Optional(SeqsUpTo(ExistingVariables, MaxVars)) :
        Starts([DefaultOptions EXCEPT !.preserveVariables = t],
               JsonFile(WithOptional(
                   [info |-> WithOptional([name |-> "generated"], "_postman_id", nid),
                    item |-> <<NewLeaf(nameA, sGET, <<sPets>>)>>], "variable", nv)),
               JsonFile(WithOptional(
                   [info |-> WithOptional([name |-> "curated"], "_postman_id", eid),
                    item |-> <<ExistingLeaf(nameA, sGET, <<sPets>>)>>], "variable", ev)))

\* The requests of the trees whose display paths are compared: one endpoint
\* each, under the names A, B and C, at the root or in the folder F.
NewNamedEntries ==
    [leaf : {NewLeaf(nameA, sGET, <<sPets>>), NewLeaf(nameB, sGET, <<sPets, sId>>),
             NewLeaf(nameC, sGET, <<sApi>>)},
     folders : {<<>>, <<nameF>>}]
ExistingNamedEntries ==
    [leaf : {ExistingLeaf(nameA, sGET, <<sPets>>), ExistingLeaf(nameB, sGET, <<sPets, sId>>),
             ExistingLeaf(nameC, sGET, <<sApi>>)},
     folders : {<<>>, <<nameF>>}]

\* Named requests against named requests.
DiffScenarios ==
    \E ns \in SeqsUpTo(NewNamedEntries, MaxLeaves),
       es \in SeqsUpTo(ExistingNamedEntries, MaxLeaves) :
        Starts(DefaultOptions, JsonFile(NewCollectionOf(Tree(ns))),
               JsonFile(ExistingCollectionOf(Tree(es))))

\* The files: missing, not JSON, a collection, or JSON that lacks info or item.
NewFiles ==
    {MissingFile, TextFile,
     JsonFile(SetField(SetField(NewCollectionOf(
                  <<SetField(NewLeaf(nameA, sGET, <<sPets>>), "event",
                             <<Event("test", execBlank)>>)>>),
              "event", <<Event("test", execC)>>),
              "variable", <<Variable("k1", "new")>>)),
     JsonFile([item |-> <<NewLeaf(nameA, sGET, <<sPets>>)>>]),
     JsonFile([info |-> [name |-> "generated"]])}
ExistingFiles ==
    {MissingFile, TextFile,
     JsonFile(SetField(ExistingCollectionOf(
                  <<SetField(ExistingLeaf(nameB, sGET, <<sPets>>), "event",
                             <<Event("test", execP)>>)>>),
              "event", <<Event("prerequest", execP)>>)),
     JsonFile([item |-> <<ExistingLeaf(nameA, sGET, <<sPets>>)>>]),
     JsonFile([info |-> [name |-> "curated"]])}
FileScenarios ==
    \E d \in BOOLEAN, v \in BOOLEAN, out \in Optional({"out.json"}),
       nf \in NewFiles, ef \in ExistingFiles :
        Starts(WithOptional([DefaultOptions EXCEPT !.dryRun = d, !.verbose = v], "output", out),
               nf, ef)

\* The requests handed to the key functions.
KeySegments == {sPets, sId, sApi, sUsers}
KeyUrls ==
    {[string |-> <<>>], [string |-> <<"/">> \o sPets], [raw |-> "raw"],
     [path |-> [string |-> sPets]], [path |-> [string |-> <<>>]]}
        \cup {[path |-> [array |-> segs]] : segs \in SeqsUpTo(KeySegments, MaxSegs)}
KeyItems ==
    {[name |-> nameA]}
        \cup {[name |-> nameA,
               request |-> WithOptional(WithOptional([body |-> "body"], "method", m), "url", u)] :
                  m \in Optional({sGET, sGetLower, sPostMixed}), u \in Optional(KeyUrls)}

MergeIdle ==
    /\ newCollection = Undefined
    /\ existingCollection = Undefined
    /\ existingItemsMap = <<>>
    /\ mergedItems = <<>>
    /\ mergedCollection = Undefined
    /\ diff = Undefined
    /\ result = Undefined
    /\ error = ""
    /\ exitCode = 0
    /\ writes = <<>>

KeyIdle ==
    /\ keyItem = [name |-> nameA]
    /\ keyPc = "idle"
    /\ mergerKey = <<>>
    /\ sanitizerKey = <<>>

\* The JavaScript null.
Null == [null |-> TRUE]

ConvertIdle ==
    /\ convertOptions = Undefined
    /\ convertFiles = <<>>
    /\ convertPc = "idle"
    /\ openApiSpec = Undefined
    /\ converted = Undefined
    /\ convertCollection = Undefined
    /\ sanitizerCalls = <<>>
    /\ convertReads = <<>>
    /\ convertWrites = <<>>
    /\ convertResult = Undefined
    /\ convertError = ""
    /\ convertExitCode = 0

ResolveIdle ==
    /\ resolvePc = "idle"
    /\ resolveArgs = Undefined
    /\ resolved = Undefined

SanitizeIdle ==
    /\ sanPc = "idle"
    /\ sanArgs = Undefined
    /\ sanCollection = Undefined
    /\ sanLeaves = <<>>
    /\ sanNext = 1
    /\ sanReturned = <<>>
    /\ sanError = ""
    /\ sanRuns = 0

\* merge() is about to run on some command line and some files.
Init ==
    /\ \/ RequestScenarios
       \/ TreeScenarios
       \/ CollectionEventScenarios
       \/ CollectionVariableScenarios
       \/ FileScenarios
       \/ DiffScenarios
    /\ pc = "start"
    /\ MergeIdle
    /\ KeyIdle
    /\ ConvertIdle
    /\ ResolveIdle
    /\ SanitizeIdle

\* A request is about to be handed to the two key functions.
KeyInit ==
    /\ keyItem \in KeyItems
    /\ keyPc = "merger"
    /\ mergerKey = <<>>
    /\ sanitizerKey = <<>>
    /\ options = DefaultOptions
    /\ files = [p \in Paths |-> MissingFile]
    /\ pc = "idle"
    /\ MergeIdle
    /\ ConvertIdle
    /\ ResolveIdle
    /\ SanitizeIdle

Spec == Init /\ [][Next]_vars

KeySpec == KeyInit /\ [][KeyNext]_vars

\* ------------------------------------------------- what the claims speak of

RECURSIVE Flatten(_, _)
\* The leaves of a tree in depth-first order, each with the names of the
\* folders above it and its own (its path in buildItemsMap and mergeItems).
Flatten(items, parentPath) ==
    IF items = <<>> THEN <<>>
    ELSE LET item == Head(items)
             itemPath == ItemPath(parentPath, item.name)
         IN (IF IsFolder(item) THEN Flatten(item.item, itemPath)
             ELSE <<[item |-> item, path |-> itemPath]>>)
            \o Flatten(Tail(items), parentPath)

\* The candidate as the run found it on disk (the run never writes that file).
Candidate == files["new.json"].data

\* The run went down the merging path and mergeItems has returned.
ItemsMerged ==
    \/ pc \in {"build", "prerequest", "tests", "variables", "diff", "write"}
    \/ pc = "returned" /\ existingCollection # Undefined

\* The collection-level scripts have been dealt with; the variables too.
EventsPreserved ==
    \/ pc \in {"variables", "diff", "write"}
    \/ pc = "returned" /\ existingCollection # Undefined
VariablesPreserved ==
    \/ pc \in {"diff", "write"}
    \/ pc = "returned" /\ existingCollection # Undefined

CandidateLeaves == Flatten(Candidate.item, <<>>)
PreviousLeaves == Flatten(existingCollection.item, <<>>)
MergedLeaves == Flatten(mergedItems, <<>>)

\* The event list of a node, empty when it has none.
EventsOf(node) == IF "event" \in DOMAIN node THEN node.event ELSE <<>>
VariablesOf(collection) ==
    IF "variable" \in DOMAIN collection THEN collection.variable ELSE <<>>

\* A script is non-empty when some line of it is not blank.
NonEmpty(event) ==
    /\ "script" \in DOMAIN event
    /\ "exec" \in DOMAIN event.script
    /\ \E i \in 1..Len(event.script.exec) :
           \E k \in 1..Len(event.script.exec[i]) : event.script.exec[i][k] \notin WhiteSpace

\* Two requests are the same endpoint: same method, same URL path.
SameEndpoint(a, b) ==
    /\ a.request.method = b.request.method
    /\ a.request.url.path = b.request.url.path

\* The places in the previous tree of the requests that are the endpoint of
\* the candidate's i-th request, and the last of them.
PreviousOf(i) ==
    {j \in 1..Len(PreviousLeaves) :
        SameEndpoint(CandidateLeaves[i].item, PreviousLeaves[j].item)}
LastPreviousOf(i) == CHOOSE j \in PreviousOf(i) : \A k \in PreviousOf(i) : k <= j

ListenTypes == {"prerequest", "test"}

\* The events of one listen type, in order.
OfType(events, listen) == SelectSeq(events, LAMBDA e : e.listen = listen)

\* The place of the first event of a type in a list, 0 when there is none.
FirstOfType(events, listen) ==
    IF \E i \in 1..Len(events) : events[i].listen = listen
    THEN CHOOSE i \in 1..Len(events) :
             events[i].listen = listen /\ \A j \in 1..(i - 1) : events[j].listen # listen
    ELSE 0

\* The place of the first non-empty event of a type in a list, 0 when there is none.
FirstNonEmptyOfType(events, listen) ==
    IF \E i \in 1..Len(events) : events[i].listen = listen /\ NonEmpty(events[i])
    THEN CHOOSE i \in 1..Len(events) :
             /\ events[i].listen = listen /\ NonEmpty(events[i])
             /\ \A j \in 1..(i - 1) : ~(events[j].listen = listen /\ NonEmpty(events[j]))
    ELSE 0

\* ------------------------------------------------------------ the claims

\* C1 as stated, read in its favour (only candidates with at most one event of
\* each listen type are looked at): for a candidate request matched to a
\* previous request, EVERY previous event with a non-empty script is appended
\* when the candidate has no event of its listen type, and replaces the
\* candidate's event of that type when that event's script is empty.
C1_EveryPreviousEvent ==
    ItemsMerged =>
        \A i \in 1..Len(CandidateLeaves) :
            LET cand == EventsOf(CandidateLeaves[i].item)
            IN (PreviousOf(i) # {} /\ \A t \in ListenTypes : Len(OfType(cand, t)) <= 1) =>
                LET prev == EventsOf(PreviousLeaves[LastPreviousOf(i)].item)
                    merged == EventsOf(MergedLeaves[i].item)
                IN \A k \in 1..Len(prev) :
                       NonEmpty(prev[k]) =>
                           /\ FirstOfType(cand, prev[k].listen) = 0 =>
                                  \E m \in (Len(cand) + 1)..Len(merged) : merged[m] = prev[k]
                           /\ \A j \in 1..Len(cand) :
                                  cand[j].listen = prev[k].listen /\ ~NonEmpty(cand[j])
                                      => Len(merged) >= j /\ merged[j] = prev[k]

\* C1, amended: for a candidate request matched to a previous request and for
\* each listen type, the FIRST previous event of that type with a non-empty
\* script is appended verbatim when the candidate has no event of that type, and
\* replaces the candidate's FIRST event of that type when that one's script is
\* empty; either way it is among the merged request's events.
C1_ScriptPreserved ==
    ItemsMerged =>
        \A i \in 1..Len(CandidateLeaves) :
            PreviousOf(i) # {} =>
                LET cand == EventsOf(CandidateLeaves[i].item)
                    prev == EventsOf(PreviousLeaves[LastPreviousOf(i)].item)
                    merged == EventsOf(MergedLeaves[i].item)
                IN \A t \in ListenTypes :
                       LET f == FirstNonEmptyOfType(prev, t)
                           c == FirstOfType(cand, t)
                       IN f # 0 =>
                              /\ c = 0 =>
                                     \E m \in (Len(cand) + 1)..Len(merged) : merged[m] = prev[f]
                              /\ c # 0 /\ ~NonEmpty(cand[c]) =>
                                     Len(merged) >= c /\ merged[c] = prev[f]
                              /\ (c = 0 \/ ~NonEmpty(cand[c])) =>
                                     \E m \in 1..Len(merged) : merged[m] = prev[f]

\* C1's case: a matched request for which one previous script was appended and
\* another replaced an empty script of the candidate.
C1_Witness ==
    /\ ItemsMerged
    /\ \E i \in 1..Len(CandidateLeaves) :
           /\ PreviousOf(i) # {}
           /\ LET cand == EventsOf(CandidateLeaves[i].item)
                  merged == EventsOf(MergedLeaves[i].item)
              IN /\ Len(merged) > Len(cand)
                 /\ NonEmpty(merged[Len(merged)])
                 /\ \E j \in 1..Len(cand) :
                        ~NonEmpty(cand[j]) /\ NonEmpty(merged[j])

\* C2: a candidate event with a non-empty script stays where it is in the
\* merged request, whatever the previous request carries; and when the
\* candidate's first event of a listen type is non-empty, the merged request's
\* events of that type are exactly the candidate's.
C2_CandidateScriptKept ==
    ItemsMerged =>
        \A i \in 1..Len(CandidateLeaves) :
            LET cand == EventsOf(CandidateLeaves[i].item)
                merged == EventsOf(MergedLeaves[i].item)
            IN /\ Len(merged) >= Len(cand)
               /\ \A j \in 1..Len(cand) : NonEmpty(cand[j]) => merged[j] = cand[j]
               /\ \A t \in ListenTypes :
                      FirstOfType(cand, t) # 0 /\ NonEmpty(cand[FirstOfType(cand, t)])
                          => OfType(merged, t) = OfType(cand, t)

\* C2's case: the candidate and the matched previous request both carry a
\* non-empty script of one listen type, and they differ.
C2_Witness ==
    /\ ItemsMerged
    /\ \E i \in 1..Len(CandidateLeaves) :
           /\ PreviousOf(i) # {}
           /\ LET cand == EventsOf(CandidateLeaves[i].item)
                  prev == EventsOf(PreviousLeaves[LastPreviousOf(i)].item)
              IN \E j \in 1..Len(cand), k \in 1..Len(prev) :
                     /\ cand[j].listen = prev[k].listen
                     /\ NonEmpty(cand[j]) /\ NonEmpty(prev[k])
                     /\ cand[j] # prev[k]
                     /\ EventsOf(MergedLeaves[i].item)[j] = cand[j]

RECURSIVE WithoutEvents(_)
\* A tree with the event list of every node taken away.
WithoutEvents(items) ==
    [i \in 1..Len(items) |->
        LET node == items[i]
            bare == [f \in DOMAIN node \ {"event"} |-> node[f]]
        IN IF IsFolder(node) THEN SetField(bare, "item", WithoutEvents(node.item)) ELSE bare]

\* C3: but for event lists the merged tree is the candidate tree: the same
\* folders, order and names, and at every place the candidate's method, URL,
\* body and response examples; its requests are the candidate's requests.
C3_CandidateStructure ==
    ItemsMerged =>
        /\ WithoutEvents(mergedItems) = WithoutEvents(Candidate.item)
        /\ Len(MergedLeaves) = Len(CandidateLeaves)
        /\ \A i \in 1..Len(MergedLeaves) :
               /\ MergedLeaves[i].path = CandidateLeaves[i].path
               /\ MergedLeaves[i].item.request = CandidateLeaves[i].item.request
               /\ MergedLeaves[i].item.response = CandidateLeaves[i].item.response
        /\ mergedCollection # Undefined => mergedCollection.item = mergedItems

\* C3's case: a candidate with a folder, a request the merge gave a script,
\* and a previous request whose endpoint the candidate does not have.
C3_Witness ==
    /\ ItemsMerged
    /\ \E n \in 1..Len(Candidate.item) : IsFolder(Candidate.item[n])
    /\ mergedItems # Candidate.item
    /\ \E j \in 1..Len(PreviousLeaves) :
           \A i \in 1..Len(CandidateLeaves) : j \notin PreviousOf(i)
    /\ Len(CandidateLeaves) >= 2

\* The request handed to the key functions has a method and an array of path segments.
KeyHasArrayPath ==
    /\ "request" \in DOMAIN keyItem
    /\ "url" \in DOMAIN keyItem.request
    /\ "path" \in DOMAIN keyItem.request.url
    /\ "array" \in DOMAIN keyItem.request.url.path
KeyMethod ==
    IF "method" \in DOMAIN keyItem.request THEN keyItem.request.method ELSE sGET
KeySegs == keyItem.request.url.path.array

RECURSIVE Slashed(_)
\* '/' before every segment.
Slashed(segs) == IF segs = <<>> THEN <<>> ELSE <<"/">> \o Head(segs) \o Slashed(Tail(segs))

\* METHOD:/path as C4 words it: the method upper-cased, a leading slash, the
\* segments joined by '/', ':name' written '{name}'.
NormalisedKey(method, segs) ==
    LET braced == [i \in 1..Len(segs) |->
                      IF segs[i] # <<>> /\ segs[i][1] = ":"
                      THEN <<"{">> \o SubSeq(segs[i], 2, Len(segs[i])) \o <<"}">>
                      ELSE segs[i]]
    IN [i \in 1..Len(method) |-> UpperChar(method[i])] \o <<":">>
          \o (IF segs = <<>> THEN <<"/">> ELSE Slashed(braced))

C5_MatchedByEndpoint ==
    ItemsMerged =>
        \A i \in 1..Len(CandidateLeaves) :
            IF PreviousOf(i) = {}
            THEN MergedLeaves[i].item = CandidateLeaves[i].item
            ELSE \E j \in PreviousOf(i) :
                     MergedLeaves[i].item =
                         mergeRequest(CandidateLeaves[i].item, PreviousLeaves[j].item)

\* C5's case: one candidate request took the script of a previous request of
\* another name at another depth, and another candidate request kept its own
\* events although a previous request of another endpoint has its very path.
C5_Witness ==
    /\ ItemsMerged
    /\ \E i \in 1..Len(CandidateLeaves) :
           /\ PreviousOf(i) # {}
           /\ LET previous == PreviousLeaves[LastPreviousOf(i)]
              IN /\ previous.item.name # CandidateLeaves[i].item.name
                 /\ Len(previous.path) # Len(CandidateLeaves[i].path)
                 /\ EventsOf(CandidateLeaves[i].item) = <<>>
                 /\ EventsOf(previous.item) # <<>>
                 /\ EventsOf(MergedLeaves[i].item) = EventsOf(previous.item)
    /\ \E i \in 1..Len(CandidateLeaves) :
           /\ PreviousOf(i) = {}
           /\ \E j \in 1..Len(PreviousLeaves) :
                  /\ PreviousLeaves[j].path = CandidateLeaves[i].path
                  /\ EventsOf(PreviousLeaves[j].item) # <<>>
           /\ MergedLeaves[i].item = CandidateLeaves[i].item

\* The key of a leaf of a flattened tree.
KeyOf(leaf) == generateItemKey(leaf.item, leaf.path)

\* The run has built the index.
Indexed ==
    \/ pc \in {"mergeItems", "build", "prerequest", "tests", "variables", "diff", "write"}
    \/ pc = "returned" /\ existingCollection # Undefined

\* C6: the index has one entry for each key of the previous tree, which is
\* the request met last, depth first, among those of that key; a candidate
\* request of that key is merged with that one; and requests that share a key
\* do not make the run fail.
C6_LastWins ==
    /\ Indexed =>
           /\ DOMAIN existingItemsMap = {KeyOf(PreviousLeaves[j]) : j \in 1..Len(PreviousLeaves)}
           /\ \A j \in 1..Len(PreviousLeaves) :
                  LET same == {k \in 1..Len(PreviousLeaves) :
                                  KeyOf(PreviousLeaves[k]) = KeyOf(PreviousLeaves[j])}
                      last == CHOOSE k \in same : \A n \in same : n <= k
                  IN existingItemsMap[KeyOf(PreviousLeaves[j])] = PreviousLeaves[last]
    /\ ItemsMerged =>
           \A i \in 1..Len(CandidateLeaves) :
               PreviousOf(i) # {} =>
                   MergedLeaves[i].item =
                       mergeRequest(CandidateLeaves[i].item,
                                    PreviousLeaves[LastPreviousOf(i)].item)
    /\ (Indexed \/ pc = "index") => error = "" /\ exitCode = 0
    /\ (pc = "returned" /\ existingCollection # Undefined) => result.item = mergedItems

\* C6's case: two previous requests of one key carry different scripts, and
\* the candidate request of that key has the later one's and not the earlier one's.
C6_Witness ==
    /\ pc = "returned"
    /\ existingCollection # Undefined
    /\ \E i \in 1..Len(CandidateLeaves) :
           \E j \in PreviousOf(i), k \in PreviousOf(i) :
               /\ j < k
               /\ k = LastPreviousOf(i)
               /\ EventsOf(PreviousLeaves[j].item) # <<>>
               /\ EventsOf(PreviousLeaves[k].item) # <<>>
               /\ EventsOf(PreviousLeaves[j].item)[1] # EventsOf(PreviousLeaves[k].item)[1]
               /\ EventsOf(MergedLeaves[i].item) = EventsOf(PreviousLeaves[k].item)
               /\ EventsOf(PreviousLeaves[j].item)[1] \notin Range(EventsOf(MergedLeaves[i].item))

\* C7: when the previous file does not exist and the candidate file holds a
\* collection, the next step of the run returns the candidate as it is on
\* disk, without an error; unless this is a dry run it writes that very
\* collection to the output path, and to no other path; in a dry run it
\* writes nothing.
C7_Bootstrap ==
    [][(/\ pc = "checkExisting"
        /\ ~ExistsSync(options.existing)
        /\ files[options.new].kind = "json")
       => /\ pc' = "returned"
          /\ result' = files[options.new].data
          /\ error' = "" /\ exitCode' = 0
          /\ IF options.dryRun
             THEN files' = files /\ writes' = <<>>
             ELSE /\ writes' = <<OutputPath>>
                  /\ files' = [files EXCEPT ![OutputPath] = files[options.new]]]_vars

\* C7's case: a first run that was given an output path has returned the
\* candidate, scripts and variables included, and written it there.
C7_Witness ==
    /\ pc = "returned"
    /\ existingCollection = Undefined
    /\ files["existing.json"].kind = "missing"
    /\ "output" \in DOMAIN options
    /\ "event" \in DOMAIN Candidate /\ "variable" \in DOMAIN Candidate
    /\ result = Candidate
    /\ writes = <<"out.json">>
    /\ files["out.json"] = files["new.json"]

\* C8: when the candidate file does not exist the run goes from its start to
\* its catch block and exits with status 1: it returns nothing and writes no
\* file, whether the previous file exists or not, dry run or not, with an
\* output path or without.
C8_MissingCandidateFatal ==
    files["new.json"].kind = "missing" =>
        /\ pc \in {"start", "catch", "exited"}
        /\ pc # "start" => error = "New collection file not found"
        /\ pc = "exited" => exitCode = 1
        /\ result = Undefined
        /\ writes = <<>>
        /\ \A p \in Paths \ {"existing.json"} : files[p].kind = "missing"

\* C8's case: the run has exited on a missing candidate although the previous
\* file is a collection and the run is not a dry run.
C8_Witness ==
    /\ pc = "exited"
    /\ files["new.json"].kind = "missing"
    /\ files["existing.json"].kind = "json"
    /\ ~options.dryRun
    /\ exitCode = 1

\* What the run takes of one listen type from the previous collection's
\* events: the first event of the type, when the toggle is on and the
\* candidate has no event of the type.
TakenOfType(listen, enabled) ==
    IF /\ enabled
       /\ HasListen(EventsOf(existingCollection), listen)
       /\ ~HasListen(EventsOf(Candidate), listen)
    THEN <<EventsOf(existingCollection)[FirstOfType(EventsOf(existingCollection), listen)]>>
    ELSE <<>>

\* C9: the merged collection's events are the candidate's, in order and
\* unchanged, then what the pre-request toggle takes, then what the test
\* toggle takes; a toggle takes the previous collection's event of its type
\* when it is on and the candidate has none of that type, and nothing
\* otherwise; so neither the other toggle nor the variables toggle has a part
\* in what one toggle does.
C9_CollectionScripts ==
    EventsPreserved =>
        EventsOf(mergedCollection) =
            EventsOf(Candidate) \o TakenOfType("prerequest", options.preservePrerequest)
                                \o TakenOfType("test", options.preserveTests)

\* C9's case: the previous collection has a script of each type and the
\* candidate none; the test toggle is on, the other two are off, and the
\* merged collection has the previous test script alone.
C9_Witness ==
    /\ EventsPreserved
    /\ options.preserveTests /\ ~options.preservePrerequest /\ ~options.preserveVariables
    /\ EventsOf(Candidate) = <<>>
    /\ HasListen(EventsOf(existingCollection), "prerequest")
    /\ HasListen(EventsOf(existingCollection), "test")
    /\ Len(EventsOf(mergedCollection)) = 1
    /\ EventsOf(mergedCollection)[1].listen = "test"
    /\ EventsOf(mergedCollection)[1] \in Range(EventsOf(existingCollection))

\* C10: with the variables toggle on, the merged variables are the
\* candidate's, in order and unchanged, then the previous collection's
\* variables whose key the candidate does not have, in their order; a key of
\* both lists that the candidate has once is in the merged list once, with the
\* candidate's definition.
C10_CollectionVariables ==
    (VariablesPreserved /\ options.preserveVariables) =>
        LET candidate == VariablesOf(Candidate)
            previous == VariablesOf(existingCollection)
            merged == VariablesOf(mergedCollection)
        IN /\ merged = candidate \o SelectSeq(previous,
                                              LAMBDA v : v.key \notin VarKeys(candidate))
           /\ \A i \in 1..Len(candidate) :
                  (/\ candidate[i].key \in VarKeys(previous)
                   /\ \A j \in 1..Len(candidate) : candidate[j].key = candidate[i].key => j = i)
                  => \A k \in 1..Len(merged) :
                         merged[k].key = candidate[i].key => k = i /\ merged[k] = candidate[i]

\* C10's case: the two lists share a key under different values and the
\* previous list has a key of its own; the merged list has the shared key once.
C10_Witness ==
    /\ VariablesPreserved
    /\ options.preserveVariables
    /\ VariablesOf(Candidate) = <<Variable("k1", "new")>>
    /\ VariablesOf(existingCollection) = <<Variable("k1", "old"), Variable("k3", "old")>>
    /\ VariablesOf(mergedCollection) = <<Variable("k1", "new"), Variable("k3", "old")>>

\* The run has built the merged collection's root.
MergedBuilt ==
    \/ pc \in {"prerequest", "tests", "variables", "diff", "write"}
    \/ pc = "returned" /\ existingCollection # Undefined

\* The identifier of a collection, when it has one that is not the empty string.
HasIdentifier(collection) ==
    "_postman_id" \in DOMAIN collection.info /\ collection.info._postman_id # ""

\* C11: when the previous collection has an identifier the merged collection
\* has that identifier, whatever the candidate carries; when it has none the
\* merged collection's info is the candidate's, identifier included; the rest
\* of info is the candidate's in both cases.
C11_IdentifierStable ==
    MergedBuilt =>
        /\ HasIdentifier(existingCollection) =>
               /\ "_postman_id" \in DOMAIN mergedCollection.info
               /\ mergedCollection.info._postman_id = existingCollection.info._postman_id
               /\ \A f \in DOMAIN Candidate.info \ {"_postman_id"} :
                      f \in DOMAIN mergedCollection.info
                          /\ mergedCollection.info[f] = Candidate.info[f]
        /\ ~HasIdentifier(existingCollection) => mergedCollection.info = Candidate.info

\* C11's case: the two collections carry different identifiers, and the
\* collection returned and written carries the previous one's.
C11_Witness ==
    /\ pc = "returned"
    /\ existingCollection # Undefined
    /\ HasIdentifier(existingCollection)
    /\ HasIdentifier(Candidate)
    /\ Candidate.info._postman_id # existingCollection.info._postman_id
    /\ result.info._postman_id = existingCollection.info._postman_id
    /\ writes # <<>>
    /\ files[OutputPath].data.info._postman_id = existingCollection.info._postman_id

\* The display paths of the leaves of a tree.
DisplayPaths(items) == {Flatten(items, <<>>)[i].path : i \in 1..Len(Flatten(items, <<>>))}

\* The diff has been calculated.
DiffCalculated ==
    \/ pc = "write"
    \/ pc = "returned" /\ existingCollection # Undefined

\* C12: added is the display paths of the merged tree that the previous tree
\* lacks, removed those of the previous tree that the merged tree lacks,
\* preserved those of both, each path listed once; the three are pairwise
\* disjoint and together they are the paths of the two trees.
C12_Diff ==
    DiffCalculated =>
        LET previous == DisplayPaths(existingCollection.item)
            merged == DisplayPaths(mergedCollection.item)
            NoRepeat(seq) == \A i, j \in 1..Len(seq) : seq[i] = seq[j] => i = j
        IN /\ Range(diff.added) = merged \ previous
           /\ Range(diff.removed) = previous \ merged
           /\ Range(diff.preserved) = merged \cap previous
           /\ NoRepeat(diff.added) /\ NoRepeat(diff.removed) /\ NoRepeat(diff.preserved)
           /\ Range(diff.added) \cap Range(diff.removed) = {}
           /\ Range(diff.added) \cap Range(diff.preserved) = {}
           /\ Range(diff.removed) \cap Range(diff.preserved) = {}
           /\ Range(diff.added) \cup Range(diff.removed) \cup Range(diff.preserved)
                  = previous \cup merged

\* C12's case: the previous collection has A and B, the candidate B and C.
C12_Witness ==
    /\ DiffCalculated
    /\ DisplayPaths(existingCollection.item) = {nameA, nameB}
    /\ DisplayPaths(Candidate.item) = {nameB, nameC}
    /\ diff = [added |-> <<nameC>>, removed |-> <<nameA>>, preserved |-> <<nameB>>]

\* C13: once the candidate is loaded, the collection the run holds in memory
\* is the one it read: items, events, collection-level events and variables.
C13_CandidateIntact ==
    newCollection # Undefined => newCollection = Candidate

\* C14: no run of merge() terminates the process: a failure is handed to the
\* caller as an error with its message.
C14_NoProcessExit ==
    /\ pc # "exited"
    /\ exitCode = 0

\* C15: in a dry run no step writes a file, on the merging path and on the
\* first-run path alike, and the run still returns the collection it
\* computed; a run that is not a dry run has written that collection, once,
\* to options.output or else to the previous collection's path, when it returns.
C15_DryRun ==
    /\ [](options.dryRun => writes = <<>>)
    /\ [][options.dryRun => files' = files]_vars
    /\ [](pc = "returned" =>
             /\ result = IF existingCollection = Undefined THEN Candidate
                         ELSE mergedCollection
             /\ ~options.dryRun =>
                    /\ writes = <<IF "output" \in DOMAIN options
                                  THEN options.output ELSE options.existing>>
                    /\ files[writes[1]] = JsonFile(result))

\* C15's case: a dry run over an existing previous collection has returned a
\* merged collection that carries the previous collection's scripts, and the
\* files are as they were.
C15_Witness ==
    /\ pc = "returned"
    /\ options.dryRun
    /\ existingCollection # Undefined
    /\ result = mergedCollection
    /\ result # Candidate
    /\ EventsOf(result) # EventsOf(Candidate)
    /\ writes = <<>>
    /\ files["existing.json"] = JsonFile(existingCollection)
    /\ files["out.json"].kind = "missing"

\* ------------------------------------------------------------ convert.js
\*
\* A URL string is the record of its parts: [scheme, authority, rest], so
\* that the two regular expressions of overrideBaseUrl are computed:
\* /^https?:\/\/[^\/]+/ matches scheme + authority when the scheme is http://
\* or https://, and /^https?:\/\// matches the scheme.

HttpSchemes == {"http://", "https://"}

\* str.replace(/^https?:\/\/[^\/]+/, baseUrl)
ReplaceOrigin(url, baseUrl) ==
    IF url.scheme \in HttpSchemes /\ url.authority # ""
    THEN [scheme |-> baseUrl.scheme, authority |-> baseUrl.authority, rest |-> url.rest]
    ELSE url

\* baseUrl.replace(/^https?:\/\//, '')
WithoutScheme(baseUrl) ==
    IF baseUrl.scheme \in HttpSchemes
    THEN [scheme |-> "", authority |-> baseUrl.authority, rest |-> ""]
    ELSE baseUrl

RECURSIVE overrideBaseUrlItems(_, _)
\* traverse(items) of overrideBaseUrl: the items after it.
overrideBaseUrlItems(items, baseUrl) ==
    [i \in 1..Len(items) |->
        LET item == items[i]
        IN IF "item" \in DOMAIN item
           THEN SetField(item, "item", overrideBaseUrlItems(item.item, baseUrl))
           ELSE IF "request" \in DOMAIN item /\ "url" \in DOMAIN item.request
           THEN LET url == item.request.url
                    url1 == IF "string" \in DOMAIN url
                            THEN [string |-> ReplaceOrigin(url.string, baseUrl)]
                            ELSE IF "raw" \in DOMAIN url
                            THEN SetField(SetField(url, "raw", ReplaceOrigin(url.raw, baseUrl)),
                                          "host", <<WithoutScheme(baseUrl)>>)
                            ELSE url
                IN SetField(item, "request", SetField(item.request, "url", url1))
           ELSE item]

\* overrideBaseUrl(collection, baseUrl)
overrideBaseUrl(c, baseUrl) == SetField(c, "item", overrideBaseUrlItems(c.item, baseUrl))

\* addEnvironmentVariables(collection, envVars): one variable of type 'string'
\* for each entry of the environment object, appended in its order.
addEnvironmentVariables(c, envVars) ==
    LET variable == IF "variable" \in DOMAIN c THEN c.variable ELSE <<>>
    IN SetField(c, "variable",
                variable \o [i \in 1..Len(envVars) |->
                                [key |-> envVars[i].key, value |-> envVars[i].value,
                                 type |-> "string"]])

RECURSIVE countItems(_, _)
\* countItems(items, count)
countItems(items, count) ==
    IF items = <<>> THEN count
    ELSE IF "item" \in DOMAIN Head(items)
         THEN countItems(Tail(items), countItems(Head(items).item, count))
         ELSE countItems(Tail(items), count + 1)

RECURSIVE SanitizedItems(_)
\* What sanitizeCollection makes of the items, as far as convert() is
\* concerned: a body the generator filled with placeholders comes back with
\* realistic values, everything else as it was.
SanitizedItems(items) ==
    [i \in 1..Len(items) |->
        LET item == items[i]
        IN IF "item" \in DOMAIN item
           THEN SetField(item, "item", SanitizedItems(item.item))
           ELSE IF "request" \in DOMAIN item /\ "body" \in DOMAIN item.request
                      /\ item.request.body = "placeholder values"
           THEN SetField(item, "request",
                         SetField(item.request, "body", "realistic values"))
           ELSE item]

\* sanitizeCollection(collection, openApiSpec, userValuesMap), seen from convert().
sanitizeCollection(c, spec, userValuesMap) == SetField(c, "item", SanitizedItems(c.item))

\* fs.existsSync(path) and readJsonFile(path) on the files of convert().
ConvertExistsSync(path) == convertFiles[path].kind # "missing"
ConvertReadJsonFile(path) ==
    CASE convertFiles[path].kind = "missing" -> [ok |-> FALSE, error |-> "File not found"]
      [] convertFiles[path].kind = "text" -> [ok |-> FALSE, error |-> "Failed to parse JSON file"]
      [] OTHER -> [ok |-> TRUE, data |-> convertFiles[path].data]

\* options.input.startsWith('http://') || options.input.startsWith('https://')
IsUrl(input) == input \in {"http://api/v3/api-docs", "https://api/v3/api-docs"}

\* A plausible slip: the sanitizer runs whatever the flag says.
SanitizeWanted_always == TRUE

\* if (!options.skipSanitize)
SanitizeWanted == ~convertOptions.skipSanitize

\* throw new Error(message) in convert(): control goes to its catch block.
ConvertThrow(message) ==
    /\ convertPc' = "catch"
    /\ convertError' = message

\* What the network gives for the URL: a document, or a failure.
FetchOutcomes ==
    {[ok |-> TRUE, data |-> [openapi |-> "3.0.0", info |-> [title |-> "Test API"]]],
     [ok |-> FALSE, error |-> "HTTP 404: Failed to fetch"]}

\* A generated leaf: its URL is an object with raw, host and path, or a string.
GeneratedItems ==
    << [name |-> "Pets",
        item |-> << [name |-> "List all pets",
                     request |-> [method |-> "GET",
                                  url |-> [raw |-> [scheme |-> "https://",
                                                    authority |-> "api.example.com",
                                                    rest |-> "/pets"],
                                           host |-> <<[scheme |-> "",
                                                       authority |-> "api.example.com",
                                                       rest |-> ""]>>,
                                           path |-> <<"pets">>],
                                  body |-> "placeholder values"]] >>],
       [name |-> "Health",
        request |-> [method |-> "GET",
                     url |-> [string |-> [scheme |-> "http://", authority |-> "localhost:8080",
                                          rest |-> "/health"]]]],
       [name |-> "Create pet",
        request |-> [method |-> "POST",
                     url |-> [raw |-> [scheme |-> "", authority |-> "{{baseUrl}}",
                                       rest |-> "/pets"],
                              host |-> <<[scheme |-> "", authority |-> "{{baseUrl}}",
                                          rest |-> ""]>>,
                              path |-> <<"pets">>],
                     body |-> "authored values"]] >>

\* What Converter.convert calls back with: an error, a result that failed, or
\* a result whose first output is the collection.
ConverterOutcomes ==
    {[err |-> "converter error"],
     [result |-> FALSE, reason |-> "unsupported"],
     [result |-> TRUE,
      data |-> [info |-> [name |-> "Test API", _postman_id |-> "test-id"],
                item |-> GeneratedItems]],
     [result |-> TRUE,
      data |-> [info |-> [name |-> "Test API", _postman_id |-> "test-id"],
                item |-> SubSeq(GeneratedItems, 3, 3),
                variable |-> <<[key |-> "baseUrl", value |-> "/", type |-> "string"]>>]]}

\* Lines 49-63: the specification is fetched or read.
LoadSpec ==
    /\ convertPc = "start"
    /\ IF IsUrl(convertOptions.input)
       THEN /\ \E outcome \in FetchOutcomes :
                  IF outcome.ok
                  THEN /\ openApiSpec' = outcome.data
                       /\ convertPc' = "validate"
                       /\ convertError' = convertError
                  ELSE ConvertThrow(outcome.error) /\ UNCHANGED openApiSpec
            /\ UNCHANGED convertReads
       ELSE IF ~ConvertExistsSync(convertOptions.input)
       THEN ConvertThrow("Input file not found") /\ UNCHANGED <<openApiSpec, convertReads>>
       ELSE LET read == ConvertReadJsonFile(convertOptions.input)
            IN /\ convertReads' = Append(convertReads, convertOptions.input)
               /\ IF read.ok
                  THEN /\ openApiSpec' = read.data
                       /\ convertPc' = "validate"
                       /\ convertError' = convertError
                  ELSE ConvertThrow(read.error) /\ UNCHANGED openApiSpec
    /\ UNCHANGED <<convertOptions, convertFiles, converted, convertCollection, sanitizerCalls,
                   convertWrites, convertResult, convertExitCode>>
    /\ UNCHANGED <<mergeVars, keyVars, resolveVars, sanitizeVars>>

\* Lines 65-71: the document must say openapi or swagger.
ValidateSpec ==
    /\ convertPc = "validate"
    /\ IF "openapi" \notin DOMAIN openApiSpec /\ "swagger" \notin DOMAIN openApiSpec
       THEN ConvertThrow("Invalid OpenAPI specification")
       ELSE convertPc' = "convert" /\ convertError' = convertError
    /\ UNCHANGED <<convertOptions, convertFiles, openApiSpec, converted, convertCollection,
                   sanitizerCalls, convertReads, convertWrites, convertResult, convertExitCode>>
    /\ UNCHANGED <<mergeVars, keyVars, resolveVars, sanitizeVars>>

\* Lines 87-108: the converter is called and its first output taken.
ConvertSpecification ==
    /\ convertPc = "convert"
    /\ \E outcome \in ConverterOutcomes :
           IF "err" \in DOMAIN outcome
           THEN ConvertThrow(outcome.err) /\ UNCHANGED <<converted, convertCollection>>
           ELSE IF ~outcome.result
           THEN ConvertThrow("Conversion failed") /\ UNCHANGED <<converted, convertCollection>>
           ELSE /\ converted' = outcome.data
                /\ convertCollection' = outcome.data
                /\ convertPc' = "name"
                /\ convertError' = convertError
    /\ UNCHANGED <<convertOptions, convertFiles, openApiSpec, sanitizerCalls, convertReads,
                   convertWrites, convertResult, convertExitCode>>
    /\ UNCHANGED <<mergeVars, keyVars, resolveVars, sanitizeVars>>

\* Lines 110-113: the collection's name, when one is given.
OverrideName ==
    /\ convertPc = "name"
    /\ convertCollection' =
           IF "name" \in DOMAIN convertOptions
           THEN SetField(convertCollection, "info",
                         SetField(convertCollection.info, "name", convertOptions.name))
           ELSE convertCollection
    /\ convertPc' = "baseUrl"
    /\ UNCHANGED <<convertOptions, convertFiles, openApiSpec, converted, sanitizerCalls,
                   convertReads, convertWrites, convertResult, convertError, convertExitCode>>
    /\ UNCHANGED <<mergeVars, keyVars, resolveVars, sanitizeVars>>

\* Lines 115-118: the base URL, when one is given.
OverrideBaseUrl ==
    /\ convertPc = "baseUrl"
    /\ convertCollection' =
           IF "baseUrl" \in DOMAIN convertOptions
           THEN overrideBaseUrl(convertCollection, convertOptions.baseUrl)
           ELSE convertCollection
    /\ convertPc' = "envFile"
    /\ UNCHANGED <<convertOptions, convertFiles, openApiSpec, converted, sanitizerCalls,
                   convertReads, convertWrites, convertResult, convertError, convertExitCode>>
    /\ UNCHANGED <<mergeVars, keyVars, resolveVars, sanitizeVars>>

\* Lines 120-124: the environment variables, when a file of them is given.
AddEnvironment ==
    /\ convertPc = "envFile"
    /\ IF "envFile" \in DOMAIN convertOptions
       THEN LET read == ConvertReadJsonFile(convertOptions.envFile)
            IN /\ convertReads' = Append(convertReads, convertOptions.envFile)
               /\ IF read.ok
                  THEN /\ convertCollection' =
                              addEnvironmentVariables(convertCollection, read.data)
                       /\ convertPc' = "sanitize"
                       /\ convertError' = convertError
                  ELSE ConvertThrow(read.error) /\ UNCHANGED convertCollection
       ELSE /\ convertPc' = "sanitize"
            /\ UNCHANGED <<convertCollection, convertReads, convertError>>
    /\ UNCHANGED <<convertOptions, convertFiles, openApiSpec, converted, sanitizerCalls,
                   convertWrites, convertResult, convertExitCode>>
    /\ UNCHANGED <<mergeVars, keyVars, resolveVars, sanitizeVars>>

\* The call of line 139, once the user values map is settled.
CallSanitizer(userValuesMap) ==
    /\ sanitizerCalls' = Append(sanitizerCalls,
                                [collection |-> convertCollection, spec |-> openApiSpec,
                                 userValuesMap |-> userValuesMap])
    /\ convertCollection' = sanitizeCollection(convertCollection, openApiSpec, userValuesMap)
    /\ convertPc' = "write"
    /\ convertError' = convertError

\* Lines 126-142: the values are sanitized, unless that is to be skipped; the
\* user's values map is read when its file exists.
Sanitize ==
    /\ convertPc = "sanitize"
    /\ IF SanitizeWanted
       THEN IF "valuesMap" \in DOMAIN convertOptions
            THEN IF ConvertExistsSync(convertOptions.valuesMap)
                 THEN LET read == ConvertReadJsonFile(convertOptions.valuesMap)
                      IN /\ convertReads' = Append(convertReads, convertOptions.valuesMap)
                         /\ IF read.ok
                            THEN CallSanitizer(read.data)
                            ELSE /\ ConvertThrow(read.error)
                                 /\ UNCHANGED <<sanitizerCalls, convertCollection>>
                 ELSE CallSanitizer(Null) /\ UNCHANGED convertReads
            ELSE CallSanitizer(Null) /\ UNCHANGED convertReads
       ELSE /\ convertPc' = "write"
            /\ UNCHANGED <<sanitizerCalls, convertCollection, convertReads, convertError>>
    /\ UNCHANGED <<convertOptions, convertFiles, openApiSpec, converted, convertWrites,
                   convertResult, convertExitCode>>
    /\ UNCHANGED <<mergeVars, keyVars, resolveVars, sanitizeVars>>

\* Lines 144-155: the collection is written and returned.
WriteCollection ==
    /\ convertPc = "write"
    /\ convertFiles' = [convertFiles EXCEPT ![convertOptions.output] =
                            JsonFile(convertCollection)]
    /\ convertWrites' = Append(convertWrites, convertOptions.output)
    /\ convertResult' = convertCollection
    /\ convertPc' = "returned"
    /\ UNCHANGED <<convertOptions, openApiSpec, converted, convertCollection, sanitizerCalls,
                   convertReads, convertError, convertExitCode>>
    /\ UNCHANGED <<mergeVars, keyVars, resolveVars, sanitizeVars>>

\* Lines 157-163: the catch block of convert(): log, then process.exit(1).
ConvertCatch ==
    /\ convertPc = "catch"
    /\ convertPc' = "exited"
    /\ convertExitCode' = 1
    /\ UNCHANGED <<convertOptions, convertFiles, openApiSpec, converted, convertCollection,
                   sanitizerCalls, convertReads, convertWrites, convertResult, convertError>>
    /\ UNCHANGED <<mergeVars, keyVars, resolveVars, sanitizeVars>>

ConvertNext ==
    \/ LoadSpec
    \/ ValidateSpec
    \/ ConvertSpecification
    \/ OverrideName
    \/ OverrideBaseUrl
    \/ AddEnvironment
    \/ Sanitize
    \/ WriteCollection
    \/ ConvertCatch

ConvertPaths == {"spec.json", "env.json", "values.json", "postman-collection.json"}

\* The command lines of convert: the input is a file or a URL, the output has
\* its default, each of the other options is given or not.
ConvertOptionSets ==
    {WithOptional(WithOptional(WithOptional(WithOptional(
         [input |-> input, output |-> "postman-collection.json",
          skipSanitize |-> skip, verbose |-> FALSE],
         "name", name), "baseUrl", baseUrl), "envFile", envFile), "valuesMap", valuesMap) :
        input \in {"spec.json", "https://api/v3/api-docs"},
        skip \in BOOLEAN,
        name \in Optional({"My API"}),
        baseUrl \in Optional({[scheme |-> "https://", authority |-> "staging.example.com",
                               rest |-> ""],
                              [scheme |-> "", authority |-> "{{host}}", rest |-> ""]}),
        envFile \in Optional({"env.json"}),
        valuesMap \in Optional({"values.json"})}

SpecFiles ==
    {MissingFile, TextFile,
     JsonFile([openapi |-> "3.0.0", info |-> [title |-> "Test API"]]),
     JsonFile([swagger |-> "2.0", info |-> [title |-> "Test API"]]),
     JsonFile([info |-> [title |-> "Test API"]])}
EnvFiles ==
    {MissingFile, JsonFile(<<[key |-> "apiKey", value |-> "secret"]>>)}
ValuesFiles ==
    {MissingFile, TextFile, JsonFile([fieldDefaults |-> [name |-> "Custom Pet"]])}

\* convert() is about to run on some command line and some files.
ConvertInit ==
    /\ convertOptions \in ConvertOptionSets
    /\ \E sf \in SpecFiles, ef \in EnvFiles, vf \in ValuesFiles :
           convertFiles = [p \in ConvertPaths |->
                              CASE p = "spec.json" -> sf
                                [] p = "env.json" -> ef
                                [] p = "values.json" -> vf
                                [] OTHER -> MissingFile]
    /\ convertPc = "start"
    /\ openApiSpec = Undefined
    /\ converted = Undefined
    /\ convertCollection = Undefined
    /\ sanitizerCalls = <<>>
    /\ convertReads = <<>>
    /\ convertWrites = <<>>
    /\ convertResult = Undefined
    /\ convertError = ""
    /\ convertExitCode = 0
    /\ options = DefaultOptions
    /\ files = [p \in Paths |-> MissingFile]
    /\ pc = "idle"
    /\ MergeIdle
    /\ KeyIdle
    /\ ResolveIdle
    /\ SanitizeIdle

ConvertSpec == ConvertInit /\ [][ConvertNext]_vars

\* The collection convert() has before the sanitizing block: the converter's
\* output after the name, base-URL and environment steps.
BeforeSanitizing ==
    LET named == IF "name" \in DOMAIN convertOptions
                 THEN SetField(converted, "info",
                               SetField(converted.info, "name", convertOptions.name))
                 ELSE converted
        based == IF "baseUrl" \in DOMAIN convertOptions
                 THEN overrideBaseUrl(named, convertOptions.baseUrl)
                 ELSE named
    IN IF "envFile" \in DOMAIN convertOptions
       THEN addEnvironmentVariables(based, convertFiles[convertOptions.envFile].data)
       ELSE based

\* The values map is named and its file does not exist.
ValuesMapMissing ==
    /\ "valuesMap" \in DOMAIN convertOptions
    /\ ~ConvertExistsSync(convertOptions.valuesMap)

\* C20: with skipSanitize set the sanitizer is never called and the values
\* map never read, and the collection written and returned is the
\* converter's output after the name, base-URL and environment steps alone;
\* with skipSanitize not set and a values map file that does not exist, the
\* sanitizing step raises nothing, calls the sanitizer once with a null user
\* values map, and the run goes on to write.
C20_SkipSanitize ==
    /\ [](convertOptions.skipSanitize =>
             /\ sanitizerCalls = <<>>
             /\ "values.json" \notin Range(convertReads)
             /\ convertPc = "returned" =>
                    /\ convertResult = BeforeSanitizing
                    /\ convertWrites = <<convertOptions.output>>
                    /\ convertFiles[convertOptions.output] = JsonFile(BeforeSanitizing))
    /\ [][(convertPc = "sanitize" /\ ~convertOptions.skipSanitize /\ ValuesMapMissing) =>
              /\ convertPc' = "write"
              /\ convertError' = ""
              /\ convertReads' = convertReads
              /\ Len(sanitizerCalls') = 1
              /\ sanitizerCalls'[1].userValuesMap = Null
              /\ sanitizerCalls'[1].collection = BeforeSanitizing]_vars
    /\ []((~convertOptions.skipSanitize /\ ValuesMapMissing /\ convertPc = "returned") =>
              /\ convertExitCode = 0 /\ convertError = ""
              /\ sanitizerCalls = <<[collection |-> BeforeSanitizing, spec |-> openApiSpec,
                                     userValuesMap |-> Null]>>
              /\ convertResult = sanitizeCollection(BeforeSanitizing, openApiSpec, Null)
              /\ convertFiles[convertOptions.output] = JsonFile(convertResult))

\* C20's case: a run with skipSanitize, a values map that exists, a name, a
\* base URL and an environment file has returned: placeholders and all.
C20_Witness ==
    /\ convertPc = "returned"
    /\ convertOptions.skipSanitize
    /\ "valuesMap" \in DOMAIN convertOptions
    /\ ConvertExistsSync(convertOptions.valuesMap)
    /\ "name" \in DOMAIN convertOptions
    /\ "baseUrl" \in DOMAIN convertOptions
    /\ "envFile" \in DOMAIN convertOptions
    /\ convertResult # converted
    /\ "item" \in DOMAIN convertResult.item[1]
    /\ convertResult.item[1].item[1].request.body = "placeholder values"
    /\ convertResult.item[1].item[1].request.url.raw.authority = "staging.example.com"
    /\ sanitizerCalls = <<>>

\* ------------------------------------------------- the value sanitizer
\*
\* scripts/value-sanitizer.js.  A JSON scalar is a tagged value:
\* [string |-> s], [number |-> n], [boolean |-> b], or Null.  Field names are
\* sequences of characters, since they are compared without regard to case
\* and by suffix.

\* The width of the window an integer is drawn from when the schema declares
\* one bound only.
SanWindow == 2
\* Most fields in a body handed to the sanitizer.
MaxFields == 2
\* Most runs of the sanitizer on its own output.
MaxRuns == 2

VString(s) == [string |-> s]
VNumber(n) == [number |-> n]
VBoolean(b) == [boolean |-> b]

UpperCaseLetters == <<"A", "B", "C", "D", "E", "F", "G", "H", "I", "J", "K", "L", "M",
                      "N", "O", "P", "Q", "R", "S", "T", "U", "V", "W", "X", "Y", "Z">>
LowerCaseLetters == <<"a", "b", "c", "d", "e", "f", "g", "h", "i", "j", "k", "l", "m",
                      "n", "o", "p", "q", "r", "s", "t", "u", "v", "w", "x", "y", "z">>

\* String.prototype.toLowerCase
ToLowerCase(s) ==
    [i \in 1..Len(s) |->
        IF \E k \in 1..26 : UpperCaseLetters[k] = s[i]
        THEN LowerCaseLetters[CHOOSE k \in 1..26 : UpperCaseLetters[k] = s[i]]
        ELSE s[i]]

\* String.prototype.endsWith
EndsWith(s, suffix) ==
    Len(suffix) <= Len(s) /\ SubSeq(s, Len(s) - Len(suffix) + 1, Len(s)) = suffix

fName == <<"n", "a", "m", "e">>
fEmail == <<"e", "m", "a", "i", "l">>
fEmailCapital == <<"E", "m", "a", "i", "l">>
fCityUpper == <<"C", "I", "T", "Y">>
fPetName == <<"p", "e", "t", "N", "a", "m", "e">>
fUserEmail == <<"u", "s", "e", "r", "E", "m", "a", "i", "l">>
fAge == <<"a", "g", "e">>
fCity == <<"c", "i", "t", "y">>
fFirstName == <<"f", "i", "r", "s", "t", "N", "a", "m", "e">>
fUnknownField == <<"u", "n", "k", "n", "o", "w", "n", "F", "i", "e", "l", "d">>
fStatus == <<"s", "t", "a", "t", "u", "s">>
fSpecies == <<"s", "p", "e", "c", "i", "e", "s">>

\* FORMAT_DEFAULTS: format token -> exemplar.
FORMAT_DEFAULTS ==
    [uuid |-> VString("550e8400-e29b-41d4-a716-446655440000"),
     email |-> VString("user@example.com"),
     date_time |-> VString("2025-01-15T10:30:00.000Z")]

\* FIELD_NAME_DEFAULTS: field-name token -> exemplar, in the table's order.
FIELD_NAME_DEFAULTS ==
    << [key |-> fEmail, value |-> VString("user@example.com")],
       [key |-> fFirstName, value |-> VString("John")],
       [key |-> fName, value |-> VString("John Doe")],
       [key |-> fAge, value |-> VNumber(25)],
       [key |-> fCity, value |-> VString("Springfield")] >>

\* The entries of FIELD_NAME_DEFAULTS whose token is the field name, and
\* those whose token the field name ends with, case set aside.
ExactNameMatches(fieldName) ==
    LET lower == ToLowerCase(fieldName)
    IN {i \in 1..Len(FIELD_NAME_DEFAULTS) : ToLowerCase(FIELD_NAME_DEFAULTS[i].key) = lower}
SuffixNameMatches(fieldName) ==
    LET lower == ToLowerCase(fieldName)
    IN {i \in 1..Len(FIELD_NAME_DEFAULTS) :
           EndsWith(lower, ToLowerCase(FIELD_NAME_DEFAULTS[i].key))}

\* The user value map has an override of the field for the endpoint.  The
\* endpoint key is Null or [string |-> key].
HasOverride(fieldName, userValueMap, endpointKey) ==
    /\ userValueMap # Null
    /\ endpointKey # Null
    /\ "endpointOverrides" \in DOMAIN userValueMap
    /\ endpointKey.string \in DOMAIN userValueMap.endpointOverrides
    /\ fieldName \in DOMAIN userValueMap.endpointOverrides[endpointKey.string]

\* The user value map has a default of the field.
HasFieldDefault(fieldName, userValueMap) ==
    /\ userValueMap # Null
    /\ "fieldDefaults" \in DOMAIN userValueMap
    /\ fieldName \in DOMAIN userValueMap.fieldDefaults

\* The type-based fallback: an integer or a number within the declared
\* bounds (any of them: the choice is the implementation's), true for a
\* boolean, null otherwise.
TypeFallback(fieldSchema) ==
    IF "type" \in DOMAIN fieldSchema /\ fieldSchema.type \in {"integer", "number"}
          /\ ("minimum" \in DOMAIN fieldSchema \/ "maximum" \in DOMAIN fieldSchema)
    THEN LET lo == IF "minimum" \in DOMAIN fieldSchema THEN fieldSchema.minimum
                   ELSE fieldSchema.maximum - SanWindow
             hi == IF "maximum" \in DOMAIN fieldSchema THEN fieldSchema.maximum
                   ELSE fieldSchema.minimum + SanWindow
         IN IF lo <= hi THEN {VNumber(n) : n \in lo..hi} ELSE {Null}
    ELSE IF "type" \in DOMAIN fieldSchema /\ fieldSchema.type = "boolean"
    THEN {VBoolean(TRUE)}
    ELSE {Null}

\* Steps 3 to 7 of resolveValue, which read the schema and the field name only.
ResolveBuiltIn(fieldName, fieldSchema) ==
    IF "example" \in DOMAIN fieldSchema
    THEN {fieldSchema.example}
    ELSE IF "enum" \in DOMAIN fieldSchema /\ fieldSchema.enum # <<>>
    THEN {fieldSchema.enum[1]}
    ELSE IF "format" \in DOMAIN fieldSchema /\ fieldSchema.format \in DOMAIN FORMAT_DEFAULTS
    THEN {FORMAT_DEFAULTS[fieldSchema.format]}
    ELSE IF ExactNameMatches(fieldName) # {}
    THEN {FIELD_NAME_DEFAULTS[i].value : i \in ExactNameMatches(fieldName)}
    ELSE IF SuffixNameMatches(fieldName) # {}
    THEN {FIELD_NAME_DEFAULTS[i].value : i \in SuffixNameMatches(fieldName)}
    ELSE TypeFallback(fieldSchema)

\* A plausible slip: the field default is looked up before the endpoint override.
resolveValue_defaultsFirst(fieldName, fieldSchema, userValueMap, endpointKey) ==
    IF HasFieldDefault(fieldName, userValueMap)
    THEN {userValueMap.fieldDefaults[fieldName]}
    ELSE IF HasOverride(fieldName, userValueMap, endpointKey)
    THEN {userValueMap.endpointOverrides[endpointKey.string][fieldName]}
    ELSE ResolveBuiltIn(fieldName, fieldSchema)

\* resolveValue(fieldName, fieldSchema, userValueMap, endpointKey): the values
\* it may return (one, but for the type-based fallback and for a field name
\* that ends with several tokens).
resolveValue(fieldName, fieldSchema, userValueMap, endpointKey) ==
    IF HasOverride(fieldName, userValueMap, endpointKey)
    THEN {userValueMap.endpointOverrides[endpointKey.string][fieldName]}
    ELSE IF HasFieldDefault(fieldName, userValueMap)
    THEN {userValueMap.fieldDefaults[fieldName]}
    ELSE ResolveBuiltIn(fieldName, fieldSchema)

\* resolveValue is called and answers.
ResolveValue ==
    /\ resolvePc = "call"
    /\ resolved' \in resolveValue(resolveArgs.fieldName, resolveArgs.fieldSchema,
                                  resolveArgs.userValueMap, resolveArgs.endpointKey)
    /\ resolvePc' = "done"
    /\ UNCHANGED resolveArgs
    /\ UNCHANGED <<mergeVars, keyVars, convertVars, sanitizeVars>>

ResolveNext == ResolveValue


\* The arguments resolveValue is called with.
ResolveFieldNames == {fName, fEmailCapital, fPetName, fUnknownField, fFirstName, fAge}
ResolveExamples == {VString("Buddy")}
ResolveEnums == {<<>>, <<VString("available"), VString("pending"), VString("sold")>>}
ResolveFormats == {"email", "uuid", "date_time", "binary"}
ResolveTypes == {"integer", "number", "boolean", "string"}
ResolveMinimum == 0
\* The largest maximum a schema declares.
ResolveMaximum == 3

\* A schema descriptor: every property is optional.
FieldSchemas ==
    {ex @@ en @@ fo @@ ty @@ mi @@ ma :
        ex \in {<<>>} \cup {[example |-> e] : e \in ResolveExamples},
        en \in {<<>>} \cup {[enum |-> e] : e \in ResolveEnums},
        fo \in {<<>>} \cup {[format |-> f] : f \in ResolveFormats},
        ty \in {<<>>} \cup {[type |-> t] : t \in ResolveTypes},
        mi \in {<<>>, [minimum |-> ResolveMinimum]},
        ma \in {<<>>, [maximum |-> ResolveMaximum]}}

UserFieldDefaults == fName :> VString("Default")
\* The endpoint keys of the tests: 'POST:/pets' and 'GET:/users'.
keyPostPets == <<"P", "O", "S", "T", ":", "/", "p", "e", "t", "s">>
keyGetUsers == <<"G", "E", "T", ":", "/", "u", "s", "e", "r", "s">>
UserEndpointOverrides == keyPostPets :> (fName :> VString("Override"))
UserValueMaps ==
    {Null, <<>>,
     [fieldDefaults |-> UserFieldDefaults],
     [endpointOverrides |-> UserEndpointOverrides],
     [fieldDefaults |-> UserFieldDefaults, endpointOverrides |-> UserEndpointOverrides]}
EndpointKeys == {Null, VString(keyPostPets), VString(keyGetUsers)}

ResolveInit ==
    /\ \E fieldName \in ResolveFieldNames, fieldSchema \in FieldSchemas,
          userValueMap \in UserValueMaps, endpointKey \in EndpointKeys :
            resolveArgs = [fieldName |-> fieldName, fieldSchema |-> fieldSchema,
                           userValueMap |-> userValueMap, endpointKey |-> endpointKey]
    /\ resolvePc = "call"
    /\ resolved = Undefined
    /\ options = DefaultOptions
    /\ files = [p \in Paths |-> MissingFile]
    /\ pc = "idle"
    /\ MergeIdle
    /\ KeyIdle
    /\ ConvertIdle
    /\ SanitizeIdle

ResolveSpec == ResolveInit /\ [][ResolveNext]_vars

\* The sources of a value that a call of resolveValue has at hand.
OverridePresent ==
    /\ resolveArgs.userValueMap \notin {Null, <<>>}
    /\ "endpointOverrides" \in DOMAIN resolveArgs.userValueMap
    /\ resolveArgs.endpointKey # Null
    /\ \E k \in DOMAIN resolveArgs.userValueMap.endpointOverrides :
          /\ VString(k) = resolveArgs.endpointKey
          /\ resolveArgs.fieldName \in DOMAIN resolveArgs.userValueMap.endpointOverrides[k]
DefaultPresent ==
    /\ resolveArgs.userValueMap \notin {Null, <<>>}
    /\ "fieldDefaults" \in DOMAIN resolveArgs.userValueMap
    /\ resolveArgs.fieldName \in DOMAIN resolveArgs.userValueMap.fieldDefaults
ExamplePresent == "example" \in DOMAIN resolveArgs.fieldSchema
EnumPresent ==
    "enum" \in DOMAIN resolveArgs.fieldSchema /\ Len(resolveArgs.fieldSchema.enum) > 0
FormatPresent ==
    /\ "format" \in DOMAIN resolveArgs.fieldSchema
    /\ resolveArgs.fieldSchema.format \in {"uuid", "email", "date_time"}
ExactNamePresent == ExactNameMatches(resolveArgs.fieldName) # {}
SuffixNamePresent == SuffixNameMatches(resolveArgs.fieldName) # {}
TypeOf(t) == "type" \in DOMAIN resolveArgs.fieldSchema /\ resolveArgs.fieldSchema.type = t

\* C16: resolveValue is a strict priority chain in which the first source at
\* hand wins, whatever other sources are at hand: the endpoint override, the
\* field default, the schema's example, its first enum value, the format
\* default, the field-name default (exact match before suffix match, case
\* set aside), the type-based fallback (an integer or number within
\* [minimum, maximum], true for a boolean), else null; an override for
\* 'POST:/pets' applies to that endpoint only and every other endpoint gets
\* the field default.
C16_PriorityChain ==
    resolvePc = "done" =>
        LET a == resolveArgs
            s == a.fieldSchema
            user == OverridePresent \/ DefaultPresent
            declared == ExamplePresent \/ EnumPresent \/ FormatPresent
            named == ExactNamePresent \/ SuffixNamePresent
        IN /\ OverridePresent =>
                resolved = a.userValueMap.endpointOverrides[a.endpointKey.string][a.fieldName]
           /\ ~OverridePresent /\ DefaultPresent =>
                resolved = a.userValueMap.fieldDefaults[a.fieldName]
           /\ ~user /\ ExamplePresent => resolved = s.example
           /\ ~user /\ ~ExamplePresent /\ EnumPresent => resolved = s.enum[1]
           /\ ~user /\ ~ExamplePresent /\ ~EnumPresent /\ FormatPresent =>
                resolved = FORMAT_DEFAULTS[s.format]
           /\ ~user /\ ~declared /\ ExactNamePresent =>
                \E i \in 1..Len(FIELD_NAME_DEFAULTS) :
                    /\ ToLowerCase(FIELD_NAME_DEFAULTS[i].key) = ToLowerCase(a.fieldName)
                    /\ resolved = FIELD_NAME_DEFAULTS[i].value
           /\ ~user /\ ~declared /\ ~ExactNamePresent /\ SuffixNamePresent =>
                \E i \in SuffixNameMatches(a.fieldName) :
                    resolved = FIELD_NAME_DEFAULTS[i].value
           /\ ~user /\ ~declared /\ ~named /\ (TypeOf("integer") \/ TypeOf("number"))
                 /\ "minimum" \in DOMAIN s /\ "maximum" \in DOMAIN s =>
                /\ "number" \in DOMAIN resolved
                /\ s.minimum <= resolved.number /\ resolved.number <= s.maximum
           /\ ~user /\ ~declared /\ ~named /\ (TypeOf("integer") \/ TypeOf("number"))
                 /\ "minimum" \in DOMAIN s /\ "maximum" \notin DOMAIN s =>
                "number" \in DOMAIN resolved /\ s.minimum <= resolved.number
           /\ ~user /\ ~declared /\ ~named /\ (TypeOf("integer") \/ TypeOf("number"))
                 /\ "minimum" \notin DOMAIN s /\ "maximum" \in DOMAIN s =>
                "number" \in DOMAIN resolved /\ resolved.number <= s.maximum
           /\ ~user /\ ~declared /\ ~named /\ TypeOf("boolean") => resolved = VBoolean(TRUE)
           /\ ~user /\ ~declared /\ ~named
                 /\ ~TypeOf("boolean")
                 /\ ~((TypeOf("integer") \/ TypeOf("number"))
                        /\ ("minimum" \in DOMAIN s \/ "maximum" \in DOMAIN s)) =>
                resolved = Null
           /\ a.fieldName = fName
                 /\ a.userValueMap = [fieldDefaults |-> UserFieldDefaults,
                                      endpointOverrides |-> UserEndpointOverrides] =>
                resolved = IF a.endpointKey = VString(keyPostPets)
                           THEN VString("Override") ELSE VString("Default")

\* resolveValue has answered 'Default' for an endpoint other than the one
\* the override is for, with a schema that declares an example too.
C16_Witness ==
    /\ resolvePc = "done"
    /\ resolveArgs.fieldName = fName
    /\ resolveArgs.userValueMap = [fieldDefaults |-> UserFieldDefaults,
                                   endpointOverrides |-> UserEndpointOverrides]
    /\ resolveArgs.endpointKey = VString(keyGetUsers)
    /\ "example" \in DOMAIN resolveArgs.fieldSchema
    /\ resolved = VString("Default")


\* ------------------------------------------------ sanitizeCollection
\*
\* A collection handed to the sanitizer is Null, an object without items, or
\* a tree of requests.  A raw body is [json |-> fields] when its text parses
\* to an object, fields being its [name, value] pairs in order, and
\* [text |-> t] when it does not parse.

\* The values isRandomValue is known to flag.
RandomSamples ==
    {VString("ut labore sint tempor"), VString("Duis nulla"), VString("aliquip"),
     VString("lorem ipsum dolor sit amet"),
     VString("xhWusLJP6pS@dtZnVkyxTktuLkmofguN.jrxq"), VString("9ZcGNifob9M@uyoD.ugb"),
     VString("1959-10-25T17:44:56.486Z"), VString("1966-07-04T19:09:56.846Z"),
     VString("1987-08-24T13:51:37.821Z"),
     VString("urn:uuid:36a23258-2561-a45b-0feb-223506c7ee66"),
     VNumber(78171233), VNumber(-50000000)}

\* isRandomValue(value), on the values the model uses: the flagged samples
\* are random, every other value (ordinary text, small numbers, booleans) is
\* authentic.
isRandomValue(value) == value \in RandomSamples

\* buildSchemaMap(specification): the schemas of components.schemas in order,
\* each [name, properties]; none when the specification is absent or declares
\* no schemas.
buildSchemaMap(specification) ==
    IF specification = Null THEN <<>>
    ELSE IF "components" \notin DOMAIN specification THEN <<>>
    ELSE IF "schemas" \notin DOMAIN specification.components THEN <<>>
    ELSE specification.components.schemas

\* The descriptor of a field in one schema's properties, Null when there is none.
PropertyOf(properties, fieldName) ==
    IF \E k \in 1..Len(properties) : properties[k].key = fieldName
    THEN properties[CHOOSE k \in 1..Len(properties) :
                        /\ properties[k].key = fieldName
                        /\ \A h \in 1..(k - 1) : properties[h].key # fieldName].schema
    ELSE Null

\* findFieldSchema(fieldName, schemaMap): the descriptor of the first schema
\* that declares the field, Null when none does.
findFieldSchema(fieldName, schemaMap) ==
    LET declaring == {i \in 1..Len(schemaMap) :
                         PropertyOf(schemaMap[i].properties, fieldName) # Null}
    IN IF declaring = {} THEN Null
       ELSE PropertyOf(schemaMap[CHOOSE i \in declaring : \A h \in declaring : i <= h].properties,
                       fieldName)

\* The places of the scalar leaves of a request's body: none when the request
\* has no body or its text does not parse.
RequestLeaves(item, path) ==
    IF /\ "request" \in DOMAIN item
       /\ "body" \in DOMAIN item.request
       /\ "json" \in DOMAIN item.request.body.raw
    THEN [k \in 1..Len(item.request.body.raw.json) |-> [path |-> path, field |-> k]]
    ELSE <<>>

\* The collection has no items to walk.
NoItems(collection) ==
    \/ collection = Null
    \/ "item" \notin DOMAIN collection
    \/ collection.item = <<>>

\* The places of the leaves of a collection, folders and requests in order.
Worklist(collection) ==
    IF NoItems(collection) THEN <<>>
    ELSE Concat([i \in 1..Len(collection.item) |->
            LET node == collection.item[i]
            IN IF IsFolder(node)
               THEN Concat([j \in 1..Len(node.item) |-> RequestLeaves(node.item[j], <<i, j>>)])
               ELSE RequestLeaves(node, <<i>>)])

\* The request at a place, and the leaf at a place.
NodeAt(collection, path) ==
    IF Len(path) = 1 THEN collection.item[path[1]]
    ELSE collection.item[path[1]].item[path[2]]
LeafAt(collection, place) ==
    NodeAt(collection, place.path).request.body.raw.json[place.field]

\* The collection with the value of the leaf at a place set.
WithLeaf(collection, place, value) ==
    IF Len(place.path) = 1
    THEN [collection EXCEPT
            !.item[place.path[1]].request.body.raw.json[place.field].value = value]
    ELSE [collection EXCEPT
            !.item[place.path[1]].item[place.path[2]].request.body.raw.json[place.field].value
                = value]

\* The values resolveValue may give for the leaf at a place of a collection.
ResolvedFor(collection, place, specification, userValueMap) ==
    LET leaf == LeafAt(collection, place)
        found == findFieldSchema(leaf.name, buildSchemaMap(specification))
    IN resolveValue(leaf.name, IF found = Null THEN <<>> ELSE found, userValueMap,
                    VString(buildEndpointKey(NodeAt(collection, place.path))))

\* A plausible slip: every leaf is resolved anew, flagged or not.
ShouldReplace_always(value) == TRUE

\* A leaf is replaced when isRandomValue flags it.
ShouldReplace(value) == isRandomValue(value)

\* A plausible slip: the answer of resolveValue is stored even when it is null.
Substitute_null(original, replacement) == replacement

\* The value a flagged leaf gets: the replacement, or the original when
\* resolveValue gave null.
Substitute(original, replacement) ==
    IF replacement = Null THEN original ELSE replacement

\* A plausible slip: a collection without items comes back as an empty object.
EmptyResult_object(collection) == <<>>

\* What sanitizeCollection returns for a collection it has nothing to walk in.
EmptyResult(collection) == collection

\* The collection the current run was called with.
SanInput == IF sanRuns = 0 THEN sanArgs.collection ELSE sanReturned[sanRuns]

\* sanitizeCollection(collection, openApiSpec, userValuesMap) is entered.
SanStart ==
    /\ sanPc = "call"
    /\ sanCollection' = IF NoItems(SanInput) THEN EmptyResult(SanInput) ELSE SanInput
    /\ sanLeaves' = Worklist(SanInput)
    /\ sanNext' = 1
    /\ sanPc' = "walk"
    /\ UNCHANGED <<sanArgs, sanReturned, sanError, sanRuns>>
    /\ UNCHANGED <<mergeVars, keyVars, convertVars, resolveVars>>

\* The next leaf is classified and, when flagged, replaced.
SanLeaf ==
    /\ sanPc = "walk"
    /\ sanNext <= Len(sanLeaves)
    /\ LET place == sanLeaves[sanNext]
           leaf == LeafAt(sanCollection, place)
       IN IF ShouldReplace(leaf.value)
          THEN \E r \in ResolvedFor(sanCollection, place, sanArgs.spec, sanArgs.userValueMap) :
                  sanCollection' = WithLeaf(sanCollection, place, Substitute(leaf.value, r))
          ELSE sanCollection' = sanCollection
    /\ sanNext' = sanNext + 1
    /\ UNCHANGED <<sanPc, sanArgs, sanLeaves, sanReturned, sanError, sanRuns>>
    /\ UNCHANGED <<mergeVars, keyVars, convertVars, resolveVars>>

\* Every leaf was visited: the collection is returned.
SanReturn ==
    /\ sanPc = "walk"
    /\ sanNext > Len(sanLeaves)
    /\ sanReturned' = Append(sanReturned, sanCollection)
    /\ sanRuns' = sanRuns + 1
    /\ sanPc' = "returned"
    /\ UNCHANGED <<sanArgs, sanCollection, sanLeaves, sanNext, sanError>>
    /\ UNCHANGED <<mergeVars, keyVars, convertVars, resolveVars>>

\* The sanitizer is run again on what it returned.
SanRerun ==
    /\ sanPc = "returned"
    /\ sanRuns < MaxRuns
    /\ sanPc' = "call"
    /\ UNCHANGED <<sanArgs, sanCollection, sanLeaves, sanNext, sanReturned, sanError, sanRuns>>
    /\ UNCHANGED <<mergeVars, keyVars, convertVars, resolveVars>>

SanitizeNext == SanStart \/ SanLeaf \/ SanReturn \/ SanRerun

\* The specification of the sanitizer's tests, its schemas in order.
TestSpecification ==
    [components |->
        [schemas |->
            << [name |-> "User",
                properties |-> << [key |-> fEmail, schema |-> [type |-> "string", format |-> "email"]],
                                  [key |-> fName, schema |-> [type |-> "string"]] >>],
               [name |-> "Pet",
                properties |-> << [key |-> fName,
                                   schema |-> [type |-> "string", example |-> VString("Buddy")]],
                                  [key |-> fAge,
                                   schema |-> [type |-> "integer", minimum |-> ResolveMinimum]],
                                  [key |-> fStatus,
                                   schema |-> [type |-> "string",
                                               enum |-> <<VString("available"), VString("pending"),
                                                          VString("sold")>>]] >>] >>]]

SanSpecifications == {Null, <<>>, [components |-> <<>>], TestSpecification}

SanUserValueMaps ==
    {Null, <<>>,
     [fieldDefaults |-> fName :> VString("Custom Pet"),
      endpointOverrides |-> keyPostPets :> (fAge :> VNumber(5))]}

\* The leaves a body is made of.
SanLeafPool ==
    {[name |-> fName, value |-> VString("ut labore sint tempor")],
     [name |-> fName, value |-> VString("Buddy")],
     [name |-> fEmail, value |-> VString("xhWusLJP6pS@dtZnVkyxTktuLkmofguN.jrxq")],
     [name |-> fAge, value |-> VNumber(78171233)],
     [name |-> fAge, value |-> VNumber(3)],
     [name |-> fSpecies, value |-> VString("aliquip")],
     [name |-> fSpecies, value |-> VString("dog")],
     [name |-> fStatus, value |-> VString("aliquip")]}

\* The bodies: objects of up to MaxFields fields with different names.
SanBodies ==
    {b \in SeqsUpTo(SanLeafPool, MaxFields) :
        \A i, j \in 1..Len(b) : i # j => b[i].name # b[j].name}

SanRequest(name, segment, body) ==
    [name |-> name,
     request |-> [method |-> <<"P", "O", "S", "T">>,
                  url |-> [path |-> [array |-> <<segment>>]],
                  body |-> [mode |-> "raw", raw |-> body]]]

\* A folder with one request, whose body has one flagged leaf.
SanFolder ==
    [name |-> nameF,
     item |-> <<SanRequest(nameB, sApi,
                           [json |-> <<[name |-> fEmail,
                                        value |-> VString("9ZcGNifob9M@uyoD.ugb")]>>])>>]

SanCollections ==
    {Null, <<>>, [info |-> "info"], [item |-> <<>>],
     [item |-> <<[name |-> nameA, request |-> [method |-> <<"G", "E", "T">>,
                                               url |-> [path |-> [array |-> <<sPets>>]]]]>>],
     [item |-> <<SanRequest(nameA, sPets, [text |-> "not json"]), SanFolder>>]}
        \cup {[item |-> <<SanRequest(nameA, sPets, [json |-> b])>>] : b \in SanBodies}
        \cup {[item |-> <<SanRequest(nameA, sPets, [json |-> b]), SanFolder>>] : b \in SanBodies}

SanitizeInit ==
    /\ \E collection \in SanCollections, specification \in SanSpecifications,
          userValueMap \in SanUserValueMaps :
            sanArgs = [collection |-> collection, spec |-> specification,
                       userValueMap |-> userValueMap]
    /\ sanPc = "call"
    /\ sanCollection = Undefined
    /\ sanLeaves = <<>>
    /\ sanNext = 1
    /\ sanReturned = <<>>
    /\ sanError = ""
    /\ sanRuns = 0
    /\ options = DefaultOptions
    /\ files = [p \in Paths |-> MissingFile]
    /\ pc = "idle"
    /\ MergeIdle
    /\ KeyIdle
    /\ ConvertIdle
    /\ ResolveIdle

SanitizeSpec == SanitizeInit /\ [][SanitizeNext]_vars

\* The collection run n was called with, and the values of its leaves.
InputOfRun(n) == IF n = 1 THEN sanArgs.collection ELSE sanReturned[n - 1]
AllAuthentic(collection) ==
    \A k \in 1..Len(Worklist(collection)) :
        ~isRandomValue(LeafAt(collection, Worklist(collection)[k]).value)


Resolutions(n) ==
    LET input == InputOfRun(n)
        places == Worklist(input)
    IN [k \in 1..Len(places) |->
           ResolvedFor(input, places[k], sanArgs.spec, sanArgs.userValueMap)]

\* The flagged leaves of the input of run n.
Flagged(n) ==
    LET input == InputOfRun(n)
        places == Worklist(input)
    IN {k \in 1..Len(places) : isRandomValue(LeafAt(input, places[k]).value)}

\* The flagged leaves for which resolveValue has nothing to give, and those
\* for which it has.
Missed(n) ==
    LET resolutions == Resolutions(n)
    IN {k \in Flagged(n) : resolutions[k] = {Null}}
Resolvable(n) ==
    LET resolutions == Resolutions(n)
    IN {k \in Flagged(n) : Null \notin resolutions[k]}

C19_EmptyInput ==
    NoItems(sanArgs.collection) /\ sanPc = "returned" =>
        /\ sanError = ""
        /\ \A n \in 1..Len(sanReturned) : sanReturned[n] = sanArgs.collection
        /\ sanArgs.collection = Null => sanReturned[1] = Null

\* The sanitizer has returned null for a null collection and no specification.
C19_Witness ==
    /\ sanPc = "returned"
    /\ sanArgs.collection = Null
    /\ sanArgs.spec = Null
    /\ sanReturned = <<Null>>


\* ------------------------------------------------- the merger's key, again

RECURSIVE SegmentsWithSlashes(_)
\* The segments one after the other with '/' between two of them.
SegmentsWithSlashes(segs) ==
    IF Len(segs) = 0 THEN <<>>
    ELSE IF Len(segs) = 1 THEN segs[1]
    ELSE SegmentsWithSlashes(SubSeq(segs, 1, Len(segs) - 1)) \o <<"/">> \o segs[Len(segs)]

\* C21: the Merger's key of a request that has a method and whose URL path is
\* an array of segments is the method, ':', and the segments joined with '/';
\* GET with ['api', 'users'] gives 'GET:api/users'.
C21_MethodColonPath ==
    (keyPc \in {"sanitizer", "done"} /\ KeyHasArrayPath /\ "method" \in DOMAIN keyItem.request) =>
        /\ mergerKey = keyItem.request.method \o <<":">> \o SegmentsWithSlashes(KeySegs)
        /\ (keyItem.request.method = sGET /\ KeySegs = <<sApi, sUsers>>) =>
               mergerKey = <<"G", "E", "T", ":", "a", "p", "i", "/", "u", "s", "e", "r", "s">>

\* generateItemKey has answered 'GET:api/users' for GET with ['api', 'users'].
C21_Witness ==
    /\ keyPc \in {"sanitizer", "done"}
    /\ KeyHasArrayPath
    /\ "method" \in DOMAIN keyItem.request
    /\ keyItem.request.method = sGET
    /\ KeySegs = <<sApi, sUsers>>
    /\ mergerKey = <<"G", "E", "T", ":", "a", "p", "i", "/", "u", "s", "e", "r", "s">>


\* ------------------------------------------------- events after the merge

\* A list of events has at most one event of each listen type.
OnePerType(events) == \A t \in ListenTypes : Len(OfType(events, t)) <= 1

\* C22: when a candidate request has at most one event of each listen type,
\* the merged request has at most one event of each listen type, whatever the
\* previous collection, a matched previous request with several non-empty
\* events of one listen type included.
C22_OneEventPerType ==
    ItemsMerged =>
        \A i \in 1..Len(CandidateLeaves) :
            OnePerType(EventsOf(CandidateLeaves[i].item)) =>
                OnePerType(EventsOf(MergedLeaves[i].item))

\* A candidate request without a test event was merged with a previous
\* request that carries two different non-empty test scripts, and has one
\* test event.
C22_Witness ==
    /\ ItemsMerged
    /\ \E i \in 1..Len(CandidateLeaves) :
          /\ PreviousOf(i) # {}
          /\ OnePerType(EventsOf(CandidateLeaves[i].item))
          /\ OfType(EventsOf(CandidateLeaves[i].item), "test") = <<>>
          /\ LET prev == OfType(EventsOf(PreviousLeaves[LastPreviousOf(i)].item), "test")
             IN /\ Len(prev) = 2
                /\ NonEmpty(prev[1]) /\ NonEmpty(prev[2])
                /\ prev[1] # prev[2]
                /\ OfType(EventsOf(MergedLeaves[i].item), "test") = <<prev[1]>>


\* ------------------------------------------------- no partial output

\* The merged collection is whole: the candidate with the merged items, the
\* identifier, and the collection-level scripts and variables dealt with.
MergedWhole ==
    /\ mergedCollection # Undefined
    /\ mergedCollection.item = mergeItems(Candidate.item, existingItemsMap, <<>>)
    /\ mergedCollection.info = MergedInfo(Candidate.info, existingCollection.info)
    /\ mergedCollection =
          PreserveCollectionVariables(
              PreserveCollectionEvent(
                  PreserveCollectionEvent(
                      SetField(SetField(Candidate, "info", mergedCollection.info),
                               "item", mergedCollection.item),
                      existingCollection, "prerequest", options.preservePrerequest),
                  existingCollection, "test", options.preserveTests),
              existingCollection, Candidate, options.preserveVariables)

\* C23 as stated: the output is written at most once, only after the merged
\* collection and the diff have been computed, and a failed run has written
\* nothing.
C23_OnlyAfterMergeAndDiff ==
    /\ Len(writes) <= 1
    /\ writes # <<>> => mergedCollection # Undefined /\ diff # Undefined
    /\ pc \in {"catch", "exited"} => writes = <<>>

\* C23, amended: the output is written at most once, by the step that
\* returns; on the merging path that is after the whole merged collection
\* (items, identifier, collection-level scripts, variables) and the diff have
\* been computed, and what is written is that collection; when there is no
\* previous file it is the candidate as read, with no merge and no diff; a
\* run that fails (missing file, unparseable candidate or previous document,
\* malformed collection shape) writes nothing and changes no file.
C23_NoPartialOutput ==
    /\ [](/\ Len(writes) <= 1
          /\ writes # <<>> =>
                /\ pc = "returned" /\ error = "" /\ exitCode = 0
                /\ IF existingCollection = Undefined
                   THEN /\ mergedCollection = Undefined /\ diff = Undefined
                        /\ files[writes[1]] = JsonFile(Candidate)
                   ELSE /\ MergedWhole
                        /\ diff = calculateDiff(existingCollection, mergedCollection)
                        /\ files[writes[1]] = JsonFile(mergedCollection)
          /\ pc \in {"catch", "exited"} => writes = <<>>)
    /\ [][pc' # "returned" => files' = files /\ writes' = writes]_vars

\* A run on a candidate without an item list failed in mergeItems, after the
\* index was built, and has written nothing.
C23_Witness ==
    /\ pc = "exited"
    /\ existingCollection # Undefined
    /\ existingItemsMap # <<>>
    /\ error = "TypeError"
    /\ writes = <<>>
    /\ \A p \in Paths \ {"new.json", "existing.json"} : files[p] = MissingFile


\* ------------------------------------------------- the sync run again

\* merge() is run again on the same command line: the candidate file is as
\* it was, and the previous file now holds what the first run wrote over it.
Rerun ==
    /\ pc = "returned"
    /\ existingCollection # Undefined
    /\ writes = <<options.existing>>
    /\ pc' = "start"
    /\ newCollection' = Undefined
    /\ existingCollection' = Undefined
    /\ existingItemsMap' = <<>>
    /\ mergedItems' = <<>>
    /\ mergedCollection' = Undefined
    /\ diff' = Undefined
    /\ result' = Undefined
    /\ UNCHANGED <<options, files, error, exitCode, writes>>
    /\ UNCHANGED <<keyVars, convertVars, resolveVars, sanitizeVars>>

RerunNext == Next \/ Rerun

RerunSpec == Init /\ [][RerunNext]_vars

\* The second run has returned: its previous collection was the first run's output.
SecondRunReturned == pc = "returned" /\ Len(writes) = 2

\* Every preservation toggle is on.
AllPreserved ==
    options.preserveTests /\ options.preservePrerequest /\ options.preserveVariables

\* No two requests of the candidate have the same endpoint key.
CandidateKeysUnique ==
    \A i, j \in 1..Len(CandidateLeaves) :
        i # j => KeyOf(CandidateLeaves[i]) # KeyOf(CandidateLeaves[j])

\* C24 as stated: with every toggle on and a candidate of unique endpoint
\* keys, merging the candidate with the output of the first merge gives a
\* collection equal to that output.
C24_FixpointAfterOneRun ==
    (SecondRunReturned /\ AllPreserved /\ CandidateKeysUnique) =>
        result = existingCollection


\* Every request of the candidate has at most one event of each listen type.
CandidateOnePerType ==
    \A i \in 1..Len(CandidateLeaves) : OnePerType(EventsOf(CandidateLeaves[i].item))

RECURSIVE NoEmptyEvents(_)
\* A tree with every empty event list taken away.
NoEmptyEvents(items) ==
    [i \in 1..Len(items) |->
        LET node == items[i]
            bare == IF "event" \in DOMAIN node /\ node.event = <<>>
                    THEN [f \in DOMAIN node \ {"event"} |-> node[f]] ELSE node
        IN IF IsFolder(node) THEN SetField(bare, "item", NoEmptyEvents(node.item)) ELSE bare]

\* What the second run does keep: when moreover no candidate request has two
\* events of one listen type, its output is the first run's but for the empty
\* event lists of requests, which the first run creates and the second does not.
RerunKeepsAllButEmptyLists ==
    (SecondRunReturned /\ AllPreserved /\ CandidateKeysUnique /\ CandidateOnePerType) =>
        SetField(result, "item", NoEmptyEvents(result.item))
          = SetField(existingCollection, "item", NoEmptyEvents(existingCollection.item))


\* ------------------------------------------------ the diff and the scripts

\* The candidate requests matched by key with a previous request of another
\* display path.
Renamed ==
    {i \in 1..Len(CandidateLeaves) :
        PreviousOf(i) # {} /\ PreviousLeaves[LastPreviousOf(i)].path # CandidateLeaves[i].path}

\* The diff is the diff of the previous collection and the candidate, and the
\* merged tree has the candidate's nodes at the candidate's places.
DiffIsOfCandidate ==
    /\ diff = calculateDiff(existingCollection, Candidate)
    /\ WithoutEvents(mergedCollection.item) = WithoutEvents(Candidate.item)
    /\ \A i \in Renamed :
           MergedLeaves[i].item =
               mergeRequest(CandidateLeaves[i].item, PreviousLeaves[LastPreviousOf(i)].item)

\* C25 as stated: the diff between the previous collection and the merged one
\* is the diff between the previous collection and the candidate, the merge
\* adding, dropping, renaming and moving no node; and every request matched by
\* key under another display path has its old path in removed and its new path
\* in added, while its scripts are carried over.
C25_RenamedRemovedAndAdded ==
    DiffCalculated =>
        /\ DiffIsOfCandidate
        /\ \A i \in Renamed :
               /\ PreviousLeaves[LastPreviousOf(i)].path \in Range(diff.removed)
               /\ CandidateLeaves[i].path \in Range(diff.added)

\* C25: the diff between the previous collection and the merged one is the
\* diff between the previous collection and the candidate, the merge adding,
\* dropping, renaming and moving no node; a request matched by key under
\* another display path has its scripts carried over, its old path is in
\* removed unless a candidate request has that display path, and its new path
\* is in added unless a previous request has that display path; such a path is
\* in preserved.
C25_DiffIgnoresScripts ==
    DiffCalculated =>
        /\ DiffIsOfCandidate
        /\ \A i \in Renamed :
               LET old == PreviousLeaves[LastPreviousOf(i)].path
                   new == CandidateLeaves[i].path
               IN /\ IF old \in DisplayPaths(Candidate.item)
                     THEN old \in Range(diff.preserved) /\ old \notin Range(diff.removed)
                     ELSE old \in Range(diff.removed)
                  /\ IF new \in DisplayPaths(existingCollection.item)
                     THEN new \in Range(diff.preserved) /\ new \notin Range(diff.added)
                     ELSE new \in Range(diff.added)

\* C25's case: a candidate request took the script of the previous request of
\* its key, whose display path is another; the old path is reported removed
\* and the new one added.
C25_Witness ==
    /\ DiffCalculated
    /\ \E i \in Renamed :
           /\ PreviousLeaves[LastPreviousOf(i)].path \in Range(diff.removed)
           /\ CandidateLeaves[i].path \in Range(diff.added)
           /\ EventsOf(MergedLeaves[i].item) # EventsOf(CandidateLeaves[i].item)
           /\ \E k \in 1..Len(EventsOf(MergedLeaves[i].item)) :
                  /\ NonEmpty(MergedLeaves[i].item.event[k])
                  /\ MergedLeaves[i].item.event[k]
                         \in Range(EventsOf(PreviousLeaves[LastPreviousOf(i)].item))


\* The places in the previous tree of the requests whose endpoint key is that
\* of the candidate's i-th request.
SameKeyAs(i) ==
    {j \in 1..Len(PreviousLeaves) : KeyOf(PreviousLeaves[j]) = KeyOf(CandidateLeaves[i])}

\* C26: every event of a merged request is an event of the candidate request
\* at that place of the tree, or an event with a non-empty script of a
\* previous request whose endpoint key is that candidate request's; and a
\* candidate request whose key no previous request has is returned as it is,
\* with its own events and no others.
C26_NoScriptLeak ==
    ItemsMerged =>
        /\ Len(MergedLeaves) = Len(CandidateLeaves)
        /\ \A i \in 1..Len(MergedLeaves) :
               /\ \A k \in 1..Len(EventsOf(MergedLeaves[i].item)) :
                      LET event == MergedLeaves[i].item.event[k]
                      IN \/ event \in Range(EventsOf(CandidateLeaves[i].item))
                         \/ /\ NonEmpty(event)
                            /\ \E j \in SameKeyAs(i) :
                                   event \in Range(EventsOf(PreviousLeaves[j].item))
               /\ SameKeyAs(i) = {} => MergedLeaves[i].item = CandidateLeaves[i].item

\* C26's case: the previous collection has a script on one endpoint; the
\* candidate request of that endpoint took it, and a candidate request of
\* another endpoint, its test script blank, came out as it went in.
C26_Witness ==
    /\ ItemsMerged
    /\ \E i, n \in 1..Len(CandidateLeaves) :
           /\ SameKeyAs(i) # {}
           /\ SameKeyAs(n) = {}
           /\ \E j \in SameKeyAs(i) :
                  \E e \in 1..Len(EventsOf(PreviousLeaves[j].item)) :
                      LET event == PreviousLeaves[j].item.event[e]
                      IN /\ NonEmpty(event)
                         /\ event \in Range(EventsOf(MergedLeaves[i].item))
                         /\ event \notin Range(EventsOf(CandidateLeaves[i].item))
                         /\ event \notin Range(EventsOf(MergedLeaves[n].item))
                         /\ \E k \in 1..Len(EventsOf(CandidateLeaves[n].item)) :
                                /\ CandidateLeaves[n].item.event[k].listen = event.listen
                                /\ ~NonEmpty(CandidateLeaves[n].item.event[k])
           /\ MergedLeaves[n].item = CandidateLeaves[n].item
           /\ EventsOf(MergedLeaves[n].item) # <<>>


====
